---- MODULE Spec2Model ----
(***************************************************************************)
(* Waveform post-processing of the LTspice automation tool:                *)
(*   - compute_vpp          (src/measurements.py)                          *)
(*   - slew rate / settling (src/pyltspicetest1.py, run_simulation, the    *)
(*     block "7. Calculate slew rate and settling time")                   *)
(*   - show_fft and the canvas callbacks (src/gui_runtime.py, main)        *)
(*   - generate_pdf_report  (src/report.py)                                *)
(*   - the buttons RUN, RUN AC, Save PDF, Load Model and their calls into  *)
(*     pyltspicetest1 (src/gui_runtime.py, main)                           *)
(*                                                                         *)
(* Numbers.  Samples are integers; every derived quantity (thresholds,     *)
(* interpolated crossing times, gradients, slew rates) is an exact         *)
(* rational carried as a record [k, n, d] in lowest terms, with the IEEE   *)
(* special values the code can produce (nan, +inf, -inf) as further kinds. *)
(* Floating-point rounding is not modelled.                                *)
(*                                                                         *)
(* Indices.  Python indexes from 0, the model from 1: Python pair index i  *)
(* is model index i+1.                                                     *)
(***************************************************************************)
EXTENDS Integers, Sequences, FiniteSets, TLC

VARIABLES
    time_arr,       \* the trace's independent variable (x_data / time_arr)
    v_arr,          \* the trace's samples (y_data / v_arr)
    xlim,           \* the window handed to compute_vpp, or NoWindow
    vpp_out,        \* what compute_vpp returned or raised, or NotCalled
    tr_out,         \* what the transient computation produced, or NotCalled
    n_sel,          \* len(uniform_t): the sample count handed to the FFT
    fft_out,        \* the FFT length computed for n_sel, or NotCalled
    time_data,      \* GUI: time samples of the last transient run, or None
    voltage_data,   \* GUI: voltage samples of the last transient run, or None
    freq_data,      \* GUI: frequencies of the last spectrum, or None
    mag_data,       \* GUI: magnitudes of the last spectrum, or None
    showing_fft,    \* GUI: the axes show the FFT
    orig_xlim,      \* GUI: x limits recorded for the zoom reset
    orig_ylim,      \* GUI: y limits recorded for the zoom reset
    ax,             \* GUI: the matplotlib axes
    rect_selector,  \* GUI: the rectangle zoom selector
    ctrl_pressed,   \* GUI: CTRL is held
    grid_disabled,  \* GUI: the grid was switched off by a pan
    pan_start,      \* GUI: (x, y, xlim, ylim) at the start of a pan, or None
    pan_transform,  \* GUI: the data transform frozen at the start of a pan
    messagebox,     \* GUI: the dialog the last callback showed, or None
    last_event,     \* GUI: the callback dispatched last; for onselect, also
                    \* the one dispatched before it
    current_model,  \* GUI: path of the op-amp model, empty when none
    r9_var,         \* GUI: the value in the R9 spin box
    last_schematic_img, \* GUI: the schematic image generated last
    labels,         \* GUI: slew_label_var, slew80_label_var,
                    \* settling_label_var
    append_var,     \* GUI: the append check box
    current_report_file, \* GUI: path of the report written last, or None
    freq_source,    \* history: the callback that assigned freq_data
    run_values,     \* history: the component values of the run that
                    \* assigned the stored trace
    disk,           \* report: the PDF files on disk, by path
    report_call     \* report: the arguments of the last generate_pdf_report

traceVars == <<time_arr, v_arr, xlim, vpp_out, tr_out>>
fftVars == <<n_sel, fft_out>>
guiVars == <<time_data, voltage_data, freq_data, mag_data, showing_fft,
             orig_xlim, orig_ylim, ax, rect_selector, ctrl_pressed,
             grid_disabled, pan_start, pan_transform, messagebox,
             last_event, current_model, r9_var, last_schematic_img, labels,
             append_var, current_report_file, freq_source, run_values>>

reportVars == <<disk, report_call>>

vars == <<traceVars, fftVars, guiVars, reportVars>>

----------------------------------------------------------------------------
(* Bounds of the model *)

\* longest trace given to the transient computation
MaxLen == 4
\* longest trace given to compute_vpp
MaxSel == 3
\* sample values of the transient traces: with a swing of 20 the 10 % and
\* 90 % thresholds (2, 18) are sample values and 0, 1, 2 is a rise that
\* stays below the 10 % threshold; with the other swings the thresholds
\* fall between sample values
Volts == {0, 1, 2, 18, 20}
\* sample values of the compute_vpp traces
YLevels == {0, 1, 2}
\* steps of the independent variable between consecutive samples
\* (0: repeated abscissa, allowed by "non-decreasing")
Dts == {0, 1, 2}

\* longest trace of the settling-time specification: one sample more than
\* the five-sample window, so that a window can end before the array does
MaxSettleLen == 6
\* sample values of the settling-time traces
SettleVolts == {-1, 19}

\* longest trace of the specification with vertical edges
MaxEdgeLen == 4
\* its sample values: with a swing of 24 the level -1 lies between the 10 %
\* and the 20 % threshold (-2.6, -0.2), and both levels of the large step
\* -1 -> 19 are nonzero, so that a gradient over a repeated abscissa is
\* infinite and not NaN
EdgeVolts == {-5, -1, 19}
\* its time steps: a repeated abscissa or one unit
EdgeDts == {0, 1}

\* most pages a report file is grown to
MaxPages == 4

\* largest sample count handed to the FFT length computation
MaxSamples == 70

\* longest trace the FFT specification loads into the GUI
MaxFftSamples == 3
\* time steps of those traces in ns: a repeated abscissa, steps that put
\* bins inside and above the band and on its upper limit (0.2 GHz), and a
\* step that puts bins on and below its lower limit (1 kHz)
FftDts == {0, 1, 4, 500000}

NoWindow == <<>>
NotCalled == [status |-> "not_called"]

----------------------------------------------------------------------------
(* Exact rationals with the IEEE special values *)

Abs(a) == IF a < 0 THEN -a ELSE a

RECURSIVE GCD(_, _)
GCD(a, b) == IF b = 0 THEN a ELSE GCD(b, a % b)

NaN == [k |-> "nan", n |-> 0, d |-> 1]
PInf == [k |-> "pinf", n |-> 0, d |-> 1]
NInf == [k |-> "ninf", n |-> 0, d |-> 1]
\* Python's None for a crossing time that was not found
None == [k |-> "none", n |-> 0, d |-> 1]

\* the rational n/d, d # 0, in lowest terms with a positive denominator
Q(n, d) ==
    LET g == GCD(Abs(n), Abs(d))
        s == IF d < 0 THEN -1 ELSE 1
    IN [k |-> "fin", n |-> s * (n \div g), d |-> s * (d \div g)]

FromInt(i) == [k |-> "fin", n |-> i, d |-> 1]

IsFin(a) == a.k = "fin"
IsNaN(a) == a.k = "nan"
IsInf(a) == a.k \in {"pinf", "ninf"}
\* -1, 0, 1 for a value that is not nan
Sign(a) ==
    CASE a.k = "pinf" -> 1
      [] a.k = "ninf" -> -1
      [] OTHER -> IF a.n > 0 THEN 1 ELSE IF a.n < 0 THEN -1 ELSE 0

XNeg(a) ==
    CASE a.k = "fin" -> Q(-a.n, a.d)
      [] a.k = "pinf" -> NInf
      [] a.k = "ninf" -> PInf
      [] OTHER -> a

XAdd(a, b) ==
    CASE IsNaN(a) \/ IsNaN(b) -> NaN
      [] IsInf(a) /\ IsInf(b) -> IF a.k = b.k THEN a ELSE NaN
      [] IsInf(a) -> a
      [] IsInf(b) -> b
      [] OTHER -> LET g == GCD(a.d, b.d)
                  IN Q(a.n * (b.d \div g) + b.n * (a.d \div g),
                       (a.d \div g) * b.d)

XSub(a, b) == XAdd(a, XNeg(b))

XMul(a, b) ==
    CASE IsNaN(a) \/ IsNaN(b) -> NaN
      [] IsInf(a) \/ IsInf(b) ->
            IF Sign(a) * Sign(b) = 0 THEN NaN
            ELSE IF Sign(a) * Sign(b) > 0 THEN PInf ELSE NInf
      [] OTHER -> Q(a.n * b.n, a.d * b.d)

\* IEEE division; a zero divisor is +0 here (differences of a non-decreasing
\* sequence and their products)
XDiv(a, b) ==
    CASE IsNaN(a) \/ IsNaN(b) -> NaN
      [] IsInf(a) /\ IsInf(b) -> NaN
      [] IsInf(a) -> IF Sign(b) >= 0 THEN a ELSE XNeg(a)
      [] IsInf(b) -> FromInt(0)
      [] b.n = 0 -> IF a.n = 0 THEN NaN ELSE IF a.n > 0 THEN PInf ELSE NInf
      [] OTHER -> Q(a.n * b.d, a.d * b.n)

XAbs(a) ==
    CASE a.k = "fin" -> Q(Abs(a.n), a.d)
      [] a.k = "ninf" -> PInf
      [] OTHER -> a

\* a < b as IEEE compares: false when either is nan
XLt(a, b) ==
    CASE IsNaN(a) \/ IsNaN(b) -> FALSE
      [] a.k = "pinf" \/ b.k = "ninf" -> FALSE
      [] a.k = "ninf" \/ b.k = "pinf" -> TRUE
      [] a.d = b.d -> a.n < b.n
      [] OTHER -> LET fa == a.n \div a.d
                      fb == b.n \div b.d
                      g == GCD(a.d, b.d)
                  IN IF fa # fb THEN fa < fb
                     ELSE (a.n % a.d) * (b.d \div g)
                            < (b.n % b.d) * (a.d \div g)

XLe(a, b) ==
    CASE IsNaN(a) \/ IsNaN(b) -> FALSE
      [] OTHER -> ~XLt(b, a)

XGt(a, b) == XLt(b, a)
XGe(a, b) == XLe(b, a)

----------------------------------------------------------------------------
(* Traces *)

SeqMin(s) == CHOOSE m \in {s[i] : i \in 1..Len(s)} : \A i \in 1..Len(s) : m <= s[i]
SeqMax(s) == CHOOSE m \in {s[i] : i \in 1..Len(s)} : \A i \in 1..Len(s) : m >= s[i]

\* sequences of length n over S
SeqsOf(S, n) == [1..n -> S]

\* the abscissas that start at 0 and advance by the steps ds
RECURSIVE Cumulate(_, _)
Cumulate(ds, n) ==
    IF n = 0 THEN <<0>> ELSE
        LET prev == Cumulate(ds, n - 1) IN Append(prev, prev[n] + ds[n])

\* non-decreasing abscissas of length n
TimeAxes(n) == {Cumulate(ds, n - 1) : ds \in SeqsOf(Dts, n - 1)}

----------------------------------------------------------------------------
(* compute_vpp, src/measurements.py *)

\* lines 10-12: start, end = xlim; swapped when start > end
NormalizeNoSwap(lim) == lim

NormalizeWindow(lim) == IF lim[1] > lim[2] THEN <<lim[2], lim[1]>> ELSE lim

MaskOpenEnds(x_data, start, end) ==
    [i \in 1..Len(x_data) |-> x_data[i] > start /\ x_data[i] < end]

MaskNoUpper(x_data, start, end) ==
    [i \in 1..Len(x_data) |-> x_data[i] >= start]

\* line 13: mask = (x_data >= start) & (x_data <= end)
Mask(x_data, start, end) ==
    [i \in 1..Len(x_data) |-> x_data[i] >= start /\ x_data[i] <= end]

CompressAll(data, mask, i) == data

\* boolean-mask indexing, x_data[mask]: the selected elements in their order
RECURSIVE Compress(_, _, _)
Compress(data, mask, i) ==
    IF i > Len(data) THEN <<>>
    ELSE IF mask[i] THEN <<data[i]>> \o Compress(data, mask, i + 1)
    ELSE Compress(data, mask, i + 1)

RECURSIVE ArgMaxLast(_, _, _)
ArgMaxLast(s, i, best) ==
    IF i > Len(s) THEN best
    ELSE ArgMaxLast(s, i + 1, IF s[i] >= s[best] THEN i ELSE best)

\* np.argmax: scan keeping the first strictly larger element
RECURSIVE ArgMaxFrom(_, _, _)
ArgMaxFrom(s, i, best) ==
    IF i > Len(s) THEN best
    ELSE ArgMaxFrom(s, i + 1, IF s[i] > s[best] THEN i ELSE best)

ArgMax(s) == ArgMaxFrom(s, 2, 1)

\* np.argmin: scan keeping the first strictly smaller element
RECURSIVE ArgMinFrom(_, _, _)
ArgMinFrom(s, i, best) ==
    IF i > Len(s) THEN best
    ELSE ArgMinFrom(s, i + 1, IF s[i] < s[best] THEN i ELSE best)

ArgMin(s) == ArgMinFrom(s, 2, 1)

compute_vpp(x_data, lim, y_data) ==
    LET start == NormalizeWindow(lim)[1]
        end == NormalizeWindow(lim)[2]
        mask == Mask(x_data, start, end)
    IN  IF ~(\E i \in 1..Len(x_data) : mask[i])
        THEN [status |-> "ValueError"]
        ELSE LET x_sel == Compress(x_data, mask, 1)
                 y_sel == Compress(y_data, mask, 1)
                 idx_max == ArgMax(y_sel)
                 idx_min == ArgMin(y_sel)
                 v_max == y_sel[idx_max]
                 v_min == y_sel[idx_min]
                 t_max == x_sel[idx_max]
                 t_min == x_sel[idx_min]
             IN [status |-> "ok", vpp |-> v_max - v_min, t_max |-> t_max,
                 v_max |-> v_max, t_min |-> t_min, v_min |-> v_min]

----------------------------------------------------------------------------
(* Slew rate and settling time, src/pyltspicetest1.py lines 226-291 *)

\* lines 229-235: v_low + 0.1 * swing, ... the factor given in tenths
Threshold(v, tenths) ==
    LET v_low == SeqMin(v)
        v_high == SeqMax(v)
        swing == v_high - v_low
    IN Q(10 * v_low + tenths * swing, 10)

RisingOrFalling(v, i, v_t) ==
    \/ v[i] * v_t.d <= v_t.n /\ v[i + 1] * v_t.d >= v_t.n
    \/ v[i] * v_t.d >= v_t.n /\ v[i + 1] * v_t.d <= v_t.n

\* lines 241, 244, 253, 259: v_arr[i] <= v_t and v_arr[i + 1] >= v_t,
\* for the finite threshold v_t = v_t.n / v_t.d
Rising(v, i, v_t) == v[i] * v_t.d <= v_t.n /\ v[i + 1] * v_t.d >= v_t.n

\* np.interp(x, xp, fp) for two-point xp, fp (the slices [i : i + 2]):
\* fp[1] (Python) when x >= xp[1], fp[0] when x <= xp[0], and the chord
\* through the two points otherwise
Interp(x, xp, fp) ==
    IF x.n >= xp[2] * x.d THEN FromInt(fp[2])
    ELSE IF x.n <= xp[1] * x.d THEN FromInt(fp[1])
    ELSE \* slope * (x - xp[0]) + fp[0], slope = (fp[1] - fp[0]) / (xp[1] - xp[0])
         Q((fp[2] - fp[1]) * (x.n - xp[1] * x.d) + fp[1] * x.d * (xp[2] - xp[1]),
           x.d * (xp[2] - xp[1]))

\* the crossing time taken at pair i: lines 242, 245, 254, 260
CrossAt(t, v, i, v_t) == Interp(v_t, <<v[i], v[i + 1]>>, <<t[i], t[i + 1]>>)

\* lines 238-248: one pass for the 10 % and the 20 % crossing; st carries
\* t_10, t_20, start_idx_10, start_idx_20 (an index 0 is "not assigned")
RECURSIVE ScanLow(_, _, _, _, _, _)
ScanLow(t, v, v_10, v_20, i, st) ==
    IF i > Len(v) - 1 THEN st
    ELSE LET s1 == IF st.t_10 = None /\ Rising(v, i, v_10)
                   THEN [st EXCEPT !.t_10 = CrossAt(t, v, i, v_10),
                                   !.start_idx_10 = i]
                   ELSE st
             s2 == IF s1.t_20 = None /\ Rising(v, i, v_20)
                   THEN [s1 EXCEPT !.t_20 = CrossAt(t, v, i, v_20),
                                   !.start_idx_20 = i]
                   ELSE s1
         IN IF s2.t_10 # None /\ s2.t_20 # None THEN s2
            ELSE ScanLow(t, v, v_10, v_20, i + 1, s2)

\* lines 252-255 and 258-261: for j in range(start, len(v_arr) - 1)
RECURSIVE ScanHigh(_, _, _, _)
ScanHigh(t, v, j, v_t) ==
    IF j > Len(v) - 1 THEN None
    ELSE IF Rising(v, j, v_t) THEN CrossAt(t, v, j, v_t)
    ELSE ScanHigh(t, v, j + 1, v_t)

FindHighFromFirstPair(t, v, t_lo, start_idx, v_t) ==
    IF t_lo # None THEN ScanHigh(t, v, 1, v_t) ELSE None

FindHighFromNextPair(t, v, t_lo, start_idx, v_t) ==
    IF t_lo # None THEN ScanHigh(t, v, start_idx + 1, v_t) ELSE None

\* lines 250-251, 256-257: the search starts at the pair where the lower
\* crossing was found, and is skipped when that one was not found
FindHigh(t, v, t_lo, start_idx, v_t) ==
    IF t_lo # None THEN ScanHigh(t, v, start_idx, v_t) ELSE None

SlewRateNotEarlier(t_lo, t_hi, v_lo, v_hi) ==
    IF t_lo # None /\ t_hi # None /\ XGe(t_hi, t_lo)
    THEN XDiv(XSub(v_hi, v_lo), XSub(t_hi, t_lo))
    ELSE NaN

SlewRateZeroDefault(t_lo, t_hi, v_lo, v_hi) ==
    IF t_lo # None /\ t_hi # None /\ XGt(t_hi, t_lo)
    THEN XDiv(XSub(v_hi, v_lo), XSub(t_hi, t_lo))
    ELSE FromInt(0)

\* a slew rate with the voltage difference taken the other way round
SlewRateReversed(t_lo, t_hi, v_lo, v_hi) ==
    IF t_lo # None /\ t_hi # None /\ XGt(t_hi, t_lo)
    THEN XDiv(XSub(v_lo, v_hi), XSub(t_hi, t_lo))
    ELSE NaN

\* lines 263-271
SlewRate(t_lo, t_hi, v_lo, v_hi) ==
    IF t_lo # None /\ t_hi # None /\ XGt(t_hi, t_lo)
    THEN XDiv(XSub(v_hi, v_lo), XSub(t_hi, t_lo))
    ELSE NaN

\* np.diff(time_arr)
RECURSIVE DiffFrom(_, _)
DiffFrom(t, i) ==
    IF i >= Len(t) THEN <<>> ELSE <<t[i + 1] - t[i]>> \o DiffFrom(t, i + 1)

\* one element of np.gradient(v_arr, time_arr), edge_order 1: one-sided
\* differences at the two ends; inside, the central difference when all
\* time steps are equal (numpy then takes the scalar-spacing formula) and
\* the three-point formula for unequal steps otherwise
GradientAt(v, dx, uniform, i) ==
    LET n == Len(v)
    IN IF i = 1 THEN XDiv(FromInt(v[2] - v[1]), FromInt(dx[1]))
       ELSE IF i = n THEN XDiv(FromInt(v[n] - v[n - 1]), FromInt(dx[n - 1]))
       ELSE IF uniform
            THEN XDiv(FromInt(v[i + 1] - v[i - 1]), FromInt(2 * dx[1]))
       ELSE LET dx1 == dx[i - 1]
                dx2 == dx[i]
                a == XDiv(FromInt(-dx2), FromInt(dx1 * (dx1 + dx2)))
                b == XDiv(FromInt(dx2 - dx1), FromInt(dx1 * dx2))
                c == XDiv(FromInt(dx1), FromInt(dx2 * (dx1 + dx2)))
            IN XAdd(XAdd(XMul(a, FromInt(v[i - 1])),
                         XMul(b, FromInt(v[i]))),
                    XMul(c, FromInt(v[i + 1])))

RECURSIVE GradientFrom(_, _, _, _)
GradientFrom(v, dx, uniform, i) ==
    IF i > Len(v) THEN <<>>
    ELSE <<GradientAt(v, dx, uniform, i)>> \o GradientFrom(v, dx, uniform, i + 1)

\* np.gradient(v_arr, time_arr) for at least 2 samples
Gradient(v, t) ==
    LET dx == DiffFrom(t, 1)
        uniform == \A i \in 1..Len(dx) : dx[i] = dx[1]
    IN GradientFrom(v, dx, uniform, 1)

\* np.max(np.abs(grad)): nan when any element is nan
RECURSIVE MaxAbsFrom(_, _, _)
MaxAbsFrom(g, i, best) ==
    IF i > Len(g) THEN best
    ELSE LET x == XAbs(g[i])
         IN MaxAbsFrom(g, i + 1,
                IF IsNaN(best) \/ IsNaN(x) THEN NaN
                ELSE IF XGt(x, best) THEN x ELSE best)

MaxAbs(g) == MaxAbsFrom(g, 2, XAbs(g[1]))

\* the five-sample window grad[k:k+5], clipped at the end of the array
SettleWindow == 5

\* a four-sample window in place of grad[k:k+5]
AllBelowShort(g, k, thresh) ==
    \A j \in k..(k + SettleWindow - 2) :
        j <= Len(g) => XLt(XAbs(g[j]), thresh)

\* line 281: np.all(np.abs(grad[k:k+5]) < thresh)
AllBelow(g, k, thresh) ==
    \A j \in k..(k + SettleWindow - 1) :
        j <= Len(g) => XLt(XAbs(g[j]), thresh)

\* lines 280-283: for k in range(len(time_arr))
RECURSIVE ScanSettle(_, _, _, _, _)
ScanSettle(t, g, k, t_90, thresh) ==
    IF k > Len(t) THEN NaN
    ELSE IF XGe(FromInt(t[k]), t_90) /\ AllBelow(g, k, thresh)
         THEN XSub(FromInt(t[k]), t_90)
    ELSE ScanSettle(t, g, k + 1, t_90, thresh)

\* lines 273-283
SettlingTime(t, v, t_90) ==
    IF t_90 # None
    THEN LET grad == Gradient(v, t)
             max_grad == MaxAbs(grad)
         IN IF XGt(max_grad, FromInt(0))
            THEN ScanSettle(t, grad, 1, t_90, XMul(Q(1, 100), max_grad))
            ELSE NaN
    ELSE NaN

\* a computation that gives up all three outputs as soon as one of them
\* cannot be computed
TransientMetricsJoint(t, v) ==
    IF Len(v) = 0 THEN [status |-> "ValueError"]
    ELSE
    LET v_10 == Threshold(v, 1)
        v_90 == Threshold(v, 9)
        v_20 == Threshold(v, 2)
        v_80 == Threshold(v, 8)
        low == ScanLow(t, v, v_10, v_20, 1,
                       [t_10 |-> None, t_20 |-> None,
                        start_idx_10 |-> 0, start_idx_20 |-> 0])
        t_90 == FindHigh(t, v, low.t_10, low.start_idx_10, v_90)
        t_80 == FindHigh(t, v, low.t_20, low.start_idx_20, v_80)
        sr_90_10 == SlewRate(low.t_10, t_90, v_10, v_90)
        sr_80_20 == SlewRate(low.t_20, t_80, v_20, v_80)
        settling == SettlingTime(t, v, t_90)
        failed == IsNaN(sr_90_10) \/ IsNaN(sr_80_20) \/ IsNaN(settling)
    IN [status |-> "ok",
        t_10 |-> low.t_10, t_20 |-> low.t_20,
        start_idx_10 |-> low.start_idx_10, start_idx_20 |-> low.start_idx_20,
        t_90 |-> t_90, t_80 |-> t_80,
        slew_rate_90_10 |-> IF failed THEN NaN ELSE sr_90_10,
        slew_rate_80_20 |-> IF failed THEN NaN ELSE sr_80_20,
        settling_time |-> IF failed THEN NaN ELSE settling]

\* lines 226-291: the values of the locals when the function returns; an
\* empty trace makes v_arr.min() (line 229) raise ValueError
TransientMetrics(t, v) ==
    IF Len(v) = 0 THEN [status |-> "ValueError"]
    ELSE
    LET v_10 == Threshold(v, 1)
        v_90 == Threshold(v, 9)
        v_20 == Threshold(v, 2)
        v_80 == Threshold(v, 8)
        low == ScanLow(t, v, v_10, v_20, 1,
                       [t_10 |-> None, t_20 |-> None,
                        start_idx_10 |-> 0, start_idx_20 |-> 0])
        t_90 == FindHigh(t, v, low.t_10, low.start_idx_10, v_90)
        t_80 == FindHigh(t, v, low.t_20, low.start_idx_20, v_80)
    IN [status |-> "ok",
        t_10 |-> low.t_10, t_20 |-> low.t_20,
        start_idx_10 |-> low.start_idx_10, start_idx_20 |-> low.start_idx_20,
        t_90 |-> t_90, t_80 |-> t_80,
        slew_rate_90_10 |-> SlewRate(low.t_10, t_90, v_10, v_90),
        slew_rate_80_20 |-> SlewRate(low.t_20, t_80, v_20, v_80),
        settling_time |-> SettlingTime(t, v, t_90)]

----------------------------------------------------------------------------
(* The GUI after construction (src/gui_runtime.py, main) *)

\* a numpy array held by a GUI variable that can also be None
Array(s) == [k |-> "array", a |-> s]

\* matplotlib's singular-interval expansion (Locator.nonsingular, expander
\* 0.05): identical limits are moved apart
Nonsingular(lo, hi) ==
    IF lo # hi THEN <<lo, hi>>
    ELSE IF lo = FromInt(0) THEN <<Q(-1, 20), Q(1, 20)>>
    ELSE <<XSub(lo, XMul(Q(1, 20), XAbs(lo))),
           XAdd(hi, XMul(Q(1, 20), XAbs(hi)))>>

\* the axes created by figure.add_subplot(111), and what ax.clear() restores
EmptyAxes ==
    [xlim |-> <<FromInt(0), FromInt(1)>>, ylim |-> <<FromInt(0), FromInt(1)>>,
     xscale |-> "linear", title |-> "", lines |-> [kind |-> "none"],
     grid |-> FALSE]

\* lines 402-411, 431-441, 453-454, 478
\* paths are sequences of dot-separated components: report.pdf is
\* <<"report", "pdf">>, the empty string is <<>>
ReportFile == <<"report", "pdf">>

\* Path(p).stem: the name without its last suffix
stem(p) == IF Len(p) > 1 THEN SubSeq(p, 1, Len(p) - 1) ELSE p

\* lines 50-160: the image shows the component values and the name of the
\* op-amp model (of the eight values the model follows R9)
generate_schematic_image(r9_value, opamp_model) ==
    [k |-> "image", r9_value |-> r9_value, opamp_model |-> opamp_model]

\* a StringVar holding the empty string
NoText == [k |-> "text", s |-> "", x |-> None]

\* line 162
R9Default == 1000

\* the model file named in last_model.txt
LastModel == <<"LM7171", "lib">>

\* lines 402-478, 599-632, 662-664, 727-728: the state main() builds, with
\* `model` read from last_model.txt (empty when the file is missing)
GuiStartWith(model) ==
    /\ time_data = None
    /\ voltage_data = None
    /\ freq_data = None
    /\ mag_data = None
    /\ showing_fft = FALSE
    /\ orig_xlim = <<None, None>>
    /\ orig_ylim = <<None, None>>
    /\ ax = EmptyAxes
    /\ rect_selector = [active |-> TRUE]
    /\ ctrl_pressed = FALSE
    /\ grid_disabled = FALSE
    /\ pan_start = None
    /\ pan_transform = None
    /\ messagebox = None
    /\ last_event = [kind |-> "none", prev |-> "none"]
    /\ current_model = model
    /\ r9_var = R9Default
    /\ last_schematic_img =
          generate_schematic_image(R9Default,
              IF model # <<>> THEN stem(model) ELSE <<"LM7171">>)
    /\ labels = [slew_label_var |-> NoText, slew80_label_var |-> NoText,
                 settling_label_var |-> NoText]
    /\ append_var = FALSE
    /\ current_report_file = None
    /\ freq_source = "none"
    /\ run_values = None

\* the GUI started with a model remembered from the last session
GuiStart == GuiStartWith(LastModel)

\* no FFT length has been computed
FftIdle == n_sel = 0 /\ fft_out = NotCalled

\* no trace has been handed to compute_vpp or to the transient computation
TraceIdle ==
    /\ time_arr = <<>>
    /\ v_arr = <<>>
    /\ xlim = NoWindow
    /\ vpp_out = NotCalled
    /\ tr_out = NotCalled

\* Path(p).with_suffix(".tmp.pdf"): the last suffix, if there is one, is
\* replaced
with_suffix_tmp_pdf(p) ==
    (IF Len(p) > 1 THEN SubSeq(p, 1, Len(p) - 1) ELSE p) \o <<"tmp", "pdf">>

\* the paths the report generator touches
ReportPaths == {ReportFile, with_suffix_tmp_pdf(ReportFile)}

\* no report has been written
ReportIdle ==
    /\ disk = [p \in ReportPaths |-> None]
    /\ report_call = None

----------------------------------------------------------------------------
(* Specification of compute_vpp over bounded traces and windows *)

\* window bounds: from below the first abscissa to above the last one
WindowBounds(t) == (t[1] - 1)..(t[Len(t)] + 1)

InitVpp ==
    /\ \E n \in 1..MaxSel :
          /\ time_arr \in TimeAxes(n)
          /\ v_arr \in SeqsOf(YLevels, n)
    /\ xlim = NoWindow
    /\ vpp_out = NotCalled
    /\ tr_out = NotCalled
    /\ FftIdle
    /\ GuiStart
    /\ ReportIdle

CallComputeVpp ==
    /\ vpp_out = NotCalled
    /\ Len(time_arr) >= 1
    /\ \E lo \in WindowBounds(time_arr), hi \in WindowBounds(time_arr) :
          /\ xlim' = <<lo, hi>>
          /\ vpp_out' = compute_vpp(time_arr, <<lo, hi>>, v_arr)
    /\ UNCHANGED <<time_arr, v_arr, tr_out, fftVars, guiVars, reportVars>>

NextVpp == CallComputeVpp

SpecVpp == InitVpp /\ [][NextVpp]_vars

----------------------------------------------------------------------------
(* Specification of the transient computation over bounded traces *)

InitTransient ==
    /\ \E n \in 0..MaxLen :
          /\ time_arr \in (IF n = 0 THEN {<<>>} ELSE TimeAxes(n))
          /\ v_arr \in SeqsOf(Volts, n)
    /\ xlim = NoWindow
    /\ vpp_out = NotCalled
    /\ tr_out = NotCalled
    /\ FftIdle
    /\ GuiStart
    /\ ReportIdle

CallTransient ==
    /\ tr_out = NotCalled
    /\ tr_out' = TransientMetrics(time_arr, v_arr)
    /\ UNCHANGED <<time_arr, v_arr, xlim, vpp_out, fftVars, guiVars,
                 reportVars>>

NextTransient == CallTransient

SpecTransient == InitTransient /\ [][NextTransient]_vars

----------------------------------------------------------------------------
(* Properties of compute_vpp, checked under SpecVpp *)

VppCalled == vpp_out.status # "not_called"
VppReturned == vpp_out.status = "ok"

\* the window as the claims read it: closed, between the smaller and the
\* larger of the two bounds given
WinLo == IF xlim[1] <= xlim[2] THEN xlim[1] ELSE xlim[2]
WinHi == IF xlim[1] <= xlim[2] THEN xlim[2] ELSE xlim[1]
InWindow == {i \in 1..Len(time_arr) : WinLo <= time_arr[i] /\ time_arr[i] <= WinHi}

\* C1: with at least one sample in the closed window, compute_vpp returns,
\* v_max and v_min are the maximum and minimum of y over exactly the samples
\* in the window, and t_max, t_min are abscissas of samples in the window
\* that attain them.
C1_WindowExtrema ==
    (VppCalled /\ InWindow # {}) =>
        /\ VppReturned
        /\ \A i \in InWindow : vpp_out.v_min <= v_arr[i] /\ v_arr[i] <= vpp_out.v_max
        /\ \E i \in InWindow : v_arr[i] = vpp_out.v_max /\ time_arr[i] = vpp_out.t_max
        /\ \E i \in InWindow : v_arr[i] = vpp_out.v_min /\ time_arr[i] = vpp_out.t_min

\* a window that has a sample on each of its endpoints and leaves out a
\* sample larger than every sample inside and one smaller than every sample inside
C1_Witness ==
    /\ VppReturned
    /\ \E i \in InWindow : time_arr[i] = WinLo
    /\ \E i \in InWindow : time_arr[i] = WinHi
    /\ \E i \in (1..Len(time_arr)) \ InWindow : v_arr[i] > vpp_out.v_max
    /\ \E i \in (1..Len(time_arr)) \ InWindow : v_arr[i] < vpp_out.v_min

\* C2: a returned result has v_max >= v_min, vpp = v_max - v_min >= 0 and
\* both t_max and t_min within [min(lo,hi), max(lo,hi)].
C2_ResultShape ==
    VppReturned =>
        /\ vpp_out.v_max >= vpp_out.v_min
        /\ vpp_out.vpp = vpp_out.v_max - vpp_out.v_min
        /\ vpp_out.vpp >= 0
        /\ WinLo <= vpp_out.t_max /\ vpp_out.t_max <= WinHi
        /\ WinLo <= vpp_out.t_min /\ vpp_out.t_min <= WinHi

\* a result with a positive vpp from a window that leaves samples out above it
C2_Witness ==
    /\ VppReturned
    /\ vpp_out.vpp > 0
    /\ \E i \in 1..Len(time_arr) : time_arr[i] > WinHi

\* C3: the windows (lo, hi) and (hi, lo) give the same outcome: the same
\* five values, or the empty-selection error for both.
C3_WindowOrder ==
    VppCalled => vpp_out = compute_vpp(time_arr, <<xlim[2], xlim[1]>>, v_arr)

\* a window given as lo > hi for which a result was returned
C3_Witness == VppReturned /\ xlim[1] > xlim[2] /\ vpp_out.vpp > 0

\* C4: compute_vpp raises ValueError exactly when no sample is in the
\* closed normalized window, and otherwise returns.
C4_EmptySelection ==
    VppCalled =>
        /\ vpp_out.status \in {"ok", "ValueError"}
        /\ (vpp_out.status = "ValueError") <=> (InWindow = {})

\* the error for a window entirely above the trace's x-range
C4_Witness ==
    /\ vpp_out.status = "ValueError"
    /\ WinLo > time_arr[Len(time_arr)]

\* the error for a window inside the trace's x-range, between two samples
C4_WitnessBetween ==
    /\ vpp_out.status = "ValueError"
    /\ time_arr[1] < WinLo
    /\ WinHi < time_arr[Len(time_arr)]

FirstIn(S) == CHOOSE i \in S : \A j \in S : i <= j

\* C5: among the samples in the window that share the maximum (minimum),
\* t_max (t_min) is the abscissa of the one of lowest index.
C5_FirstOnTies ==
    VppReturned =>
        /\ vpp_out.t_max =
              time_arr[FirstIn({i \in InWindow : v_arr[i] = vpp_out.v_max})]
        /\ vpp_out.t_min =
              time_arr[FirstIn({i \in InWindow : v_arr[i] = vpp_out.v_min})]

\* two samples in the window share the maximum at different abscissas, and
\* two share the minimum at different abscissas
C5_Witness ==
    /\ VppReturned
    /\ \E i, j \in InWindow :
          /\ v_arr[i] = vpp_out.v_max /\ v_arr[j] = vpp_out.v_max
          /\ time_arr[i] # time_arr[j]
    /\ \E i, j \in InWindow :
          /\ v_arr[i] = vpp_out.v_min /\ v_arr[j] = vpp_out.v_min
          /\ time_arr[i] # time_arr[j]

----------------------------------------------------------------------------
(* Specification of both computations over flat traces *)

InitFlat ==
    /\ \E n \in 1..MaxLen :
          /\ time_arr \in TimeAxes(n)
          /\ v_arr \in {[i \in 1..n |-> c] : c \in Volts}
    /\ xlim = NoWindow
    /\ vpp_out = NotCalled
    /\ tr_out = NotCalled
    /\ FftIdle
    /\ GuiStart
    /\ ReportIdle

NextFlat == CallTransient \/ CallComputeVpp

SpecFlat == InitFlat /\ [][NextFlat]_vars

----------------------------------------------------------------------------
(* Properties of the transient computation, checked under SpecTransient *)

TrCalled == tr_out.status # "not_called"
TrReturned == tr_out.status = "ok"

NPairs == Len(v_arr) - 1
Swing == SeqMax(v_arr) - SeqMin(v_arr)

\* ten times the threshold at `tenths` tenths of the swing above the minimum
Thresh10(tenths) == 10 * SeqMin(v_arr) + tenths * Swing

\* pair i rises through (or touches) the threshold th10 / 10:
\* v[i] <= v_t <= v[i+1]
RisesAt(i, th10) == 10 * v_arr[i] <= th10 /\ th10 <= 10 * v_arr[i + 1]

\* pair i falls through the threshold: v[i] > v_t > v[i+1]
FallsAt(i, th10) == 10 * v_arr[i] > th10 /\ th10 > 10 * v_arr[i + 1]

RisingPairs(th10) == {i \in 1..NPairs : RisesAt(i, th10)}

\* the time x lies between the samples of pair i
Between(x, i) ==
    /\ IsFin(x)
    /\ time_arr[i] * x.d <= x.n
    /\ x.n <= time_arr[i + 1] * x.d

\* the crossing found for the lower threshold is the first rising pair's
LowCrossing(t_lo, start_idx, th10) ==
    LET rising == RisingPairs(th10)
    IN IF rising = {} THEN t_lo = None
       ELSE /\ t_lo # None
            /\ start_idx = FirstIn(rising)
            /\ ~FallsAt(start_idx, th10)
            /\ Between(t_lo, start_idx)

\* C6: the 10 % and the 20 % crossing are each taken at the first pair,
\* from the first sample on, with v[i] <= v_t <= v[i+1]; a falling pair is
\* never taken; the crossing time lies between the times of the pair; no
\* crossing is reported when no pair rises through the threshold.
C6_FirstRisingPair ==
    TrReturned =>
        /\ LowCrossing(tr_out.t_10, tr_out.start_idx_10, Thresh10(1))
        /\ LowCrossing(tr_out.t_20, tr_out.start_idx_20, Thresh10(2))

\* the 10 % crossing was taken at a pair that follows a pair falling
\* through the 10 % threshold, strictly inside the pair's time interval
C6_Witness ==
    /\ TrReturned
    /\ tr_out.t_10 # None
    /\ \E j \in 1..NPairs : j < tr_out.start_idx_10 /\ FallsAt(j, Thresh10(1))
    /\ XLt(FromInt(time_arr[tr_out.start_idx_10]), tr_out.t_10)
    /\ XLt(tr_out.t_10, FromInt(time_arr[tr_out.start_idx_10 + 1]))

\* the 10 % crossing was taken at a pair whose second sample is exactly
\* the threshold, on a trace with a swing
C6_WitnessOnSample ==
    /\ TrReturned
    /\ Swing > 0
    /\ tr_out.t_10 # None
    /\ 10 * v_arr[tr_out.start_idx_10 + 1] = Thresh10(1)

\* the crossing found for the upper threshold is that of the first rising
\* pair at or after the pair of the lower crossing
HighCrossing(t_lo, start_idx, t_hi, th10) ==
    IF t_lo = None THEN t_hi = None
    ELSE LET later == {j \in start_idx..NPairs : RisesAt(j, th10)}
         IN IF later = {} THEN t_hi = None
            ELSE t_hi = CrossAt(time_arr, v_arr, FirstIn(later), Q(th10, 10))

\* C7: t90 is the first rising crossing of v90 at a pair index >= the pair
\* where t10 was found, and is undefined when t10 was not found; the same
\* for t80 with t20.
C7_ResumedSearch ==
    TrReturned =>
        /\ HighCrossing(tr_out.t_10, tr_out.start_idx_10, tr_out.t_90, Thresh10(9))
        /\ HighCrossing(tr_out.t_20, tr_out.start_idx_20, tr_out.t_80, Thresh10(8))

\* a pair before the one of t10 rises through v90, at another time than
\* the t90 that was reported
C7_Witness ==
    /\ TrReturned
    /\ tr_out.t_10 # None /\ tr_out.t_90 # None
    /\ \E j \in RisingPairs(Thresh10(9)) :
          /\ j < tr_out.start_idx_10
          /\ CrossAt(time_arr, v_arr, j, Q(Thresh10(9), 10)) # tr_out.t_90

\* t10 was not found in a trace of several samples that rises through v90,
\* and t90 is undefined
C7_WitnessNoT10 ==
    /\ TrReturned
    /\ Len(v_arr) >= 2
    /\ tr_out.t_10 = None /\ tr_out.t_90 = None
    /\ RisingPairs(Thresh10(9)) # {}

\* the slew rate over the span of `tenths` tenths of the swing
ExpectedSlew(t_lo, t_hi, tenths, sr) ==
    IF t_lo # None /\ t_hi # None /\ XLt(t_lo, t_hi)
    THEN LET dt == XSub(t_hi, t_lo)
         IN sr = Q(tenths * Swing * dt.d, 10 * dt.n)
    ELSE sr = NaN

\* C8: sr_90_10 = (v90 - v10) / (t90 - t10) exactly when both crossings
\* were found and t90 > t10, and NaN otherwise, without an exception for
\* any non-empty trace; the same for sr_80_20.
C8_SlewOrNaN ==
    (TrCalled /\ Len(v_arr) >= 1) =>
        /\ TrReturned
        /\ ExpectedSlew(tr_out.t_10, tr_out.t_90, 8, tr_out.slew_rate_90_10)
        /\ ExpectedSlew(tr_out.t_20, tr_out.t_80, 6, tr_out.slew_rate_80_20)

\* both crossings found at the same time on a trace with a swing (the
\* division would be by zero), while the 80-20 rate is a number
C8_Witness ==
    /\ TrReturned
    /\ Swing > 0
    /\ tr_out.t_10 # None /\ tr_out.t_90 = tr_out.t_10
    /\ IsNaN(tr_out.slew_rate_90_10)
    /\ IsFin(tr_out.slew_rate_80_20)

StrictlyIncreasing(s) == \A i \in 1..(Len(s) - 1) : s[i] < s[i + 1]

\* C9: for a trace of at least 2 samples with strictly increasing voltage
\* and time, t10 and t90 are found, t90 > t10 and sr_90_10 is finite and
\* strictly positive.
C9_RisingTrace ==
    (TrCalled /\ Len(v_arr) >= 2
        /\ StrictlyIncreasing(v_arr) /\ StrictlyIncreasing(time_arr)) =>
        /\ TrReturned
        /\ tr_out.t_10 # None /\ tr_out.t_90 # None
        /\ XLt(tr_out.t_10, tr_out.t_90)
        /\ IsFin(tr_out.slew_rate_90_10)
        /\ tr_out.slew_rate_90_10.n > 0

\* a strictly rising trace of four samples whose 10 % crossing is not in
\* its first pair
C9_Witness ==
    /\ TrReturned
    /\ Len(v_arr) = 4
    /\ StrictlyIncreasing(v_arr) /\ StrictlyIncreasing(time_arr)
    /\ tr_out.start_idx_10 > 1

\* a strictly rising trace of 2 samples: both crossings in the one pair
C9_WitnessOnePair ==
    /\ TrReturned
    /\ Len(v_arr) = 2
    /\ StrictlyIncreasing(v_arr) /\ StrictlyIncreasing(time_arr)

----------------------------------------------------------------------------
(* Properties of flat traces, checked under SpecFlat *)

IsFlat(s) == \A i, j \in 1..Len(s) : s[i] = s[j]

\* C10: for a trace whose samples are all equal, the transient computation
\* returns sr_90_10 = NaN, sr_80_20 = NaN and settling_time = NaN without
\* raising, and compute_vpp over any window holding a sample gives vpp = 0.
C10_FlatTrace ==
    IsFlat(v_arr) =>
        /\ TrCalled =>
              /\ TrReturned
              /\ IsNaN(tr_out.slew_rate_90_10)
              /\ IsNaN(tr_out.slew_rate_80_20)
              /\ IsNaN(tr_out.settling_time)
        /\ (VppCalled /\ InWindow # {}) =>
              /\ VppReturned
              /\ vpp_out.vpp = 0

\* a flat trace of several samples at distinct times: all four crossings
\* were found (at one time), the three outputs are NaN, and a window
\* holding several samples gave vpp = 0
C10_Witness ==
    /\ IsFlat(v_arr) /\ Len(v_arr) >= 3 /\ StrictlyIncreasing(time_arr)
    /\ TrReturned
    /\ tr_out.t_10 # None /\ tr_out.t_90 # None
    /\ tr_out.t_20 # None /\ tr_out.t_80 # None
    /\ VppReturned /\ Cardinality(InWindow) >= 2

----------------------------------------------------------------------------
(* Specification of the transient computation over longer two-level traces *)

InitSettle ==
    /\ \E n \in 2..MaxSettleLen :
          /\ time_arr \in TimeAxes(n)
          /\ v_arr \in SeqsOf(SettleVolts, n)
    /\ xlim = NoWindow
    /\ vpp_out = NotCalled
    /\ tr_out = NotCalled
    /\ FftIdle
    /\ GuiStart
    /\ ReportIdle

NextSettle == CallTransient

SpecSettle == InitSettle /\ [][NextSettle]_vars

\* sample k is at or after t_90 and every gradient magnitude of samples
\* k..k+4 that exist is strictly below one hundredth of the largest one
SettledAt(g, m, k, width) ==
    /\ XGe(FromInt(time_arr[k]), tr_out.t_90)
    /\ \A j \in k..(k + width - 1) :
          j <= Len(g) => XLt(XMul(FromInt(100), XAbs(g[j])), m)

SettledSamples(g, m) == {k \in 1..Len(time_arr) : SettledAt(g, m, k, 5)}

\* C11: the settling time is time[k] - t_90 for the smallest sample k at or
\* after t_90 whose gradient window (samples k..k+4, clipped at the end of
\* the trace) lies strictly below 1 % of the largest gradient magnitude of
\* the trace; it is NaN when there is no such sample, when t_90 was not
\* found, or when the largest gradient magnitude is 0.
C11_SettlingTime ==
    TrReturned =>
        IF tr_out.t_90 = None THEN IsNaN(tr_out.settling_time)
        ELSE LET g == Gradient(v_arr, time_arr)
                 m == MaxAbs(g)
                 K == SettledSamples(g, m)
             IN IF K = {} \/ m = FromInt(0)
                THEN IsNaN(tr_out.settling_time)
                ELSE tr_out.settling_time =
                        XSub(FromInt(time_arr[FirstIn(K)]), tr_out.t_90)

\* a finite settling time, with finite gradients throughout, at a sample
\* that is not the first one at or after t_90: an earlier sample's window
\* still holds a large gradient
C11_Witness ==
    /\ TrReturned
    /\ IsFin(tr_out.settling_time)
    /\ IsFin(MaxAbs(Gradient(v_arr, time_arr)))
    /\ \E k \in 1..Len(time_arr) :
          /\ XGe(FromInt(time_arr[k]), tr_out.t_90)
          /\ XLt(XSub(FromInt(time_arr[k]), tr_out.t_90),
                 tr_out.settling_time)

\* no settling time although t_90 was found: a sample at or after t_90 has
\* four quiet gradients and a large fifth one inside its window
C11_WitnessFifthSample ==
    /\ TrReturned
    /\ tr_out.t_90 # None
    /\ IsNaN(tr_out.settling_time)
    /\ LET g == Gradient(v_arr, time_arr)
           m == MaxAbs(g)
       IN /\ IsFin(m)
          /\ \E k \in 1..Len(time_arr) :
                SettledAt(g, m, k, 4) /\ k + 4 <= Len(g)

----------------------------------------------------------------------------
(* Traces of fewer than 2 samples, checked under SpecTransient *)

\* C12: given a trace of fewer than 2 samples (0 or 1) the transient
\* computation ends in a hard failure and returns no measurement result;
\* in particular it does not return NaN values for a 1-sample trace.
C12_ShortTraceFails ==
    (TrCalled /\ Len(v_arr) < 2) => tr_out.status = "ValueError"

----------------------------------------------------------------------------
(* Specification of the transient computation over traces with vertical
   edges (repeated abscissae) *)

EdgeAxes(n) == {Cumulate(ds, n - 1) : ds \in SeqsOf(EdgeDts, n - 1)}

InitEdge ==
    /\ \E n \in 2..MaxEdgeLen :
          /\ time_arr \in EdgeAxes(n)
          /\ v_arr \in SeqsOf(EdgeVolts, n)
    /\ xlim = NoWindow
    /\ vpp_out = NotCalled
    /\ tr_out = NotCalled
    /\ FftIdle
    /\ GuiStart
    /\ ReportIdle

NextEdge == CallTransient

SpecEdge == InitEdge /\ [][NextEdge]_vars

\* both crossing times of a slew rate were found, the upper one later
CrossedInOrder(t_lo, t_hi) == t_lo # None /\ t_hi # None /\ XGt(t_hi, t_lo)

\* t_90 was found and some sample at or after it has a quiet gradient window
HasSettled ==
    /\ tr_out.t_90 # None
    /\ LET g == Gradient(v_arr, time_arr)
       IN SettledSamples(g, MaxAbs(g)) # {}

\* C17: the three outputs are independent: each one is finite exactly when
\* its own crossings (and, for the settling time, its own gradient window)
\* were found, whether or not the other two are NaN.
C17_IndependentOutputs ==
    TrReturned =>
        /\ IsFin(tr_out.slew_rate_90_10)
              <=> CrossedInOrder(tr_out.t_10, tr_out.t_90)
        /\ IsFin(tr_out.slew_rate_80_20)
              <=> CrossedInOrder(tr_out.t_20, tr_out.t_80)
        /\ IsFin(tr_out.settling_time) <=> HasSettled
        /\ \A out \in {tr_out.slew_rate_90_10, tr_out.slew_rate_80_20,
                        tr_out.settling_time} : IsFin(out) \/ IsNaN(out)

\* sr_90_10 is NaN and the settling time is finite: the 10 % and the 90 %
\* crossing are on one vertical edge
C17_Witness ==
    /\ TrReturned
    /\ IsNaN(tr_out.slew_rate_90_10)
    /\ IsFin(tr_out.settling_time)

\* sr_90_10 is NaN and sr_80_20 is finite
C17_WitnessSr80Alone ==
    /\ TrReturned
    /\ IsNaN(tr_out.slew_rate_90_10)
    /\ IsFin(tr_out.slew_rate_80_20)
    /\ IsNaN(tr_out.settling_time)

\* sr_80_20 is NaN and both other outputs are finite
C17_WitnessSr80Failed ==
    /\ TrReturned
    /\ IsNaN(tr_out.slew_rate_80_20)
    /\ IsFin(tr_out.slew_rate_90_10)
    /\ IsFin(tr_out.settling_time)

\* the settling time is NaN and both slew rates are finite
C17_WitnessNoSettling ==
    /\ TrReturned
    /\ IsNaN(tr_out.settling_time)
    /\ IsFin(tr_out.slew_rate_90_10)
    /\ IsFin(tr_out.slew_rate_80_20)

----------------------------------------------------------------------------
(* The FFT length (src/gui_runtime.py, show_fft, lines 334-341) *)

\* int.bit_length()
RECURSIVE bit_length(_)
bit_length(n) == IF n = 0 THEN 0 ELSE 1 + bit_length(n \div 2)

\* 1 << len(uniform_t).bit_length(), without the "- 1"
FftLenOfCount(n) == 2 ^ bit_length(n)

\* line 335: fft_len = 1 << (len(uniform_t) - 1).bit_length()
FftLen(n) == 2 ^ bit_length(n - 1)

\* lines 338-341: how many of the n windowed samples are in v_windowed after
\* the padding branch (all of them) or the truncation branch
\* (v_windowed[:fft_len])
KeptSamples(n, fft_len) ==
    IF fft_len > n THEN n
    ELSE IF fft_len < n THEN fft_len ELSE n

InitFftLen ==
    /\ n_sel \in 2..MaxSamples
    /\ fft_out = NotCalled
    /\ TraceIdle
    /\ GuiStart
    /\ ReportIdle

ComputeFftLen ==
    /\ fft_out = NotCalled
    /\ fft_out' = [status |-> "ok",
                   fft_len |-> FftLen(n_sel),
                   kept |-> KeptSamples(n_sel, FftLen(n_sel))]
    /\ UNCHANGED <<n_sel, traceVars, guiVars, reportVars>>

NextFftLen == ComputeFftLen

SpecFftLen == InitFftLen /\ [][NextFftLen]_vars

RECURSIVE IsPowerOfTwo(_)
IsPowerOfTwo(m) ==
    m = 1 \/ (m > 1 /\ m % 2 = 0 /\ IsPowerOfTwo(m \div 2))

\* C15: for every sample count n >= 2 the FFT length is a power of two, is
\* at least n and is the smallest such power of two (so it is below 2n);
\* the truncation branch therefore never discards a sample.
C15_FftLength ==
    fft_out.status = "ok" =>
        /\ IsPowerOfTwo(fft_out.fft_len)
        /\ fft_out.fft_len >= n_sel
        /\ \A m \in n_sel..(fft_out.fft_len - 1) : ~IsPowerOfTwo(m)
        /\ fft_out.fft_len < 2 * n_sel
        /\ fft_out.kept = n_sel

\* a sample count that is itself a power of two: the truncation branch runs
C15_Witness ==
    /\ fft_out.status = "ok"
    /\ n_sel > 2
    /\ fft_out.fft_len = n_sel

\* a sample count just above a power of two: the signal is zero-padded to
\* almost twice its length
C15_WitnessPadded ==
    /\ fft_out.status = "ok"
    /\ n_sel = 65
    /\ fft_out.fft_len = 128

----------------------------------------------------------------------------
(* The GUI callbacks (src/gui_runtime.py, main).                           *)
(*                                                                         *)
(* Units.  Abscissae of the GUI traces are integers counting nanoseconds   *)
(* and frequencies are rationals in GHz, so that time * frequency is the   *)
(* same pure number as in the program (seconds * hertz); the band limits   *)
(* 1e3 Hz and 200e6 Hz are 1/1000000 and 1/5 in this unit.                 *)
(*                                                                         *)
(* Spectral magnitudes are not computed: the magnitude of rfft bin k is    *)
(* represented by the number k.                                            *)
(*                                                                         *)
(* Pointer positions (event.x, event.y) are in units of the axes' width    *)
(* and height, so that the frozen linear transform turns a pointer         *)
(* displacement of 1 into one span of the axes.                            *)
(***************************************************************************)

\* event.key of the events of the model: None, CTRL alone, another key
NoKey == "None"
Keys == {NoKey, "control", "shift"}
\* key is not None and "control" in str(key).lower(); of Keys only
\* "control" holds the word
ControlIn(key) == key # NoKey /\ key = "control"

\* event.xdata and event.ydata of the rectangle's corners
XData == {None, FromInt(1), FromInt(5)}
YData == {None, FromInt(0), FromInt(2)}
\* event.x and event.y of the mouse events
PixelXs == {None, FromInt(0), FromInt(1)}
PixelYs == {None, FromInt(0)}
\* event.button: left, right
Buttons == {1, 3}
\* the factors by which the frozen transform of a log axis stretches a
\* pointer displacement, compared with a linear axis of the same limits
LogStretch == {1, 2}

\* Python's min(a, b) and max(a, b)
Min2(a, b) == IF XLt(b, a) THEN b ELSE a
Max2(a, b) == IF XGt(b, a) THEN b ELSE a

\* the largest power of ten below v and the smallest one above it
\* (matplotlib's _decade_less, _decade_greater), searched from p
RECURSIVE DecadeLess(_, _)
DecadeLess(v, p) ==
    IF XLt(p, v) THEN p ELSE DecadeLess(v, XMul(p, Q(1, 10)))

RECURSIVE DecadeGreater(_, _)
DecadeGreater(v, p) ==
    IF XGt(p, v) THEN p ELSE DecadeGreater(v, XMul(p, FromInt(10)))

\* 10 ** (n/d) for an exponent that is not a whole number: a limit that
\* autoscaling puts on a log axis
Pow10(e) == [k |-> "pow10", n |-> e.n, d |-> e.d]

\* x <= 0; a power of ten is above zero
NonPositive(x) == IF x.k = "pow10" THEN FALSE ELSE XLe(x, FromInt(0))

\* ax.set_xlim(lo, hi): a log axis keeps its old limit in place of a
\* non-positive one; identical limits are moved apart
SetXLim(a, lo, hi) ==
    IF a.xscale = "log"
    THEN LET l == IF NonPositive(lo) THEN a.xlim[1] ELSE lo
             h == IF NonPositive(hi) THEN a.xlim[2] ELSE hi
         IN [a EXCEPT !.xlim =
                IF l = h
                THEN <<DecadeLess(l, FromInt(1000000)),
                       DecadeGreater(h, Q(1, 1000000))>>
                ELSE <<l, h>>]
    ELSE [a EXCEPT !.xlim = Nonsingular(lo, hi)]

\* ax.set_ylim(lo, hi); the y axis is always linear
SetYLim(a, lo, hi) == [a EXCEPT !.ylim = Nonsingular(lo, hi)]

\* the limits autoscaling gives an axis whose data are the integers s:
\* the data range, moved apart when singular, widened by the 5 % margin
AutoLimits(s) ==
    LET ns == IF s = <<>> THEN Nonsingular(FromInt(0), FromInt(0))
              ELSE Nonsingular(FromInt(SeqMin(s)), FromInt(SeqMax(s)))
        delta == XMul(Q(1, 20), XSub(ns[2], ns[1]))
    IN <<XSub(ns[1], delta), XAdd(ns[2], delta)>>

\* the current values of the callbacks' nonlocals, no dialog shown yet
Gui ==
    [time_data |-> time_data, voltage_data |-> voltage_data,
     freq_data |-> freq_data, mag_data |-> mag_data,
     showing_fft |-> showing_fft,
     orig_xlim |-> orig_xlim, orig_ylim |-> orig_ylim,
     ax |-> ax, rect_selector |-> rect_selector,
     ctrl_pressed |-> ctrl_pressed, grid_disabled |-> grid_disabled,
     pan_start |-> pan_start, pan_transform |-> pan_transform,
     messagebox |-> None,
     current_model |-> current_model, r9_var |-> r9_var,
     last_schematic_img |-> last_schematic_img, labels |-> labels,
     append_var |-> append_var, current_report_file |-> current_report_file,
     freq_source |-> freq_source, run_values |-> run_values]

\* the nonlocals take the values a callback (or a chain of callbacks) left
SetNonlocals(g, kind) ==
    /\ time_data' = g.time_data
    /\ voltage_data' = g.voltage_data
    /\ freq_data' = g.freq_data
    /\ mag_data' = g.mag_data
    /\ showing_fft' = g.showing_fft
    /\ orig_xlim' = g.orig_xlim
    /\ orig_ylim' = g.orig_ylim
    /\ ax' = g.ax
    /\ rect_selector' = g.rect_selector
    /\ ctrl_pressed' = g.ctrl_pressed
    /\ grid_disabled' = g.grid_disabled
    /\ pan_start' = g.pan_start
    /\ pan_transform' = g.pan_transform
    /\ messagebox' = g.messagebox
    /\ last_event' = [kind |-> kind,
                      prev |-> IF kind = "onselect" THEN last_event.kind
                               ELSE "none"]
    /\ current_model' = g.current_model
    /\ r9_var' = g.r9_var
    /\ last_schematic_img' = g.last_schematic_img
    /\ labels' = g.labels
    /\ append_var' = g.append_var
    /\ current_report_file' = g.current_report_file
    /\ freq_source' = g.freq_source
    /\ run_values' = g.run_values

\* a callback that touches no file
SetGui(g, kind) ==
    /\ SetNonlocals(g, kind)
    /\ UNCHANGED <<traceVars, fftVars, reportVars>>

showinfo(title, text) == [k |-> "showinfo", title |-> title, text |-> text]
showerror(title, text) == [k |-> "showerror", title |-> title, text |-> text]

\* lines 352-353, in GHz
min_freq == Q(1, 1000000)
max_freq == Q(1, 5)

\* np.fft.rfftfreq(n, d): the bins 0..n/2 times 1/(n*d)
rfftfreq(n, d) ==
    LET val == XDiv(FromInt(1), XMul(FromInt(n), d))
    IN [i \in 1..(n \div 2 + 1) |-> XMul(FromInt(i - 1), val)]

\* the magnitudes mag_db of the bins 0..n/2, each represented by its bin
rfftbins(n) == [i \in 1..(n \div 2 + 1) |-> i - 1]

\* a band mask without the upper limit
BandMaskNoUpper(freq) ==
    [i \in 1..Len(freq) |-> XGe(freq[i], min_freq)]

\* line 354: (freq >= min_freq) & (freq <= max_freq)
BandMask(freq) ==
    [i \in 1..Len(freq) |-> XGe(freq[i], min_freq) /\ XLe(freq[i], max_freq)]

\* an empty band that goes unnoticed
NoBinsNever(freq) == FALSE

\* line 361: len(freq) == 0
NoBins(freq) == Len(freq) = 0

\* lines 308-319: the time samples the FFT uses, those in view when the
\* axes are zoomed
InView(g) ==
    LET x_start == g.ax.xlim[1]
        x_end == g.ax.xlim[2]
        t == g.time_data.a
    IN IF /\ g.orig_xlim[1] # None
          /\ g.orig_xlim[2] # None
          /\ (x_start # g.orig_xlim[1] \/ x_end # g.orig_xlim[2])
       THEN Compress(t,
                [i \in 1..Len(t) |->
                    /\ XGe(FromInt(t[i]), Min2(x_start, x_end))
                    /\ XLe(FromInt(t[i]), Max2(x_start, x_end))],
                1)
       ELSE t

\* lines 298-387
show_fft(g) ==
    IF g.time_data = None \/ g.voltage_data = None
    THEN [g EXCEPT !.messagebox =
            showinfo("No data", "Run a simulation before performing an FFT.")]
    ELSE
    LET t_sel == InView(g)
        n == Len(t_sel)
    IN IF n < 2
       THEN [g EXCEPT !.messagebox =
               showinfo("No data", "Not enough points in view for FFT.")]
       ELSE
       LET dt == XDiv(FromInt(t_sel[n] - t_sel[1]), FromInt(n - 1))
           fft_len == FftLen(n)
           freq0 == Tail(rfftfreq(fft_len, dt))
           mag0 == Tail(rfftbins(fft_len))
           freq_mask == BandMask(freq0)
           freq == Compress(freq0, freq_mask, 1)
           mag_db == Compress(mag0, freq_mask, 1)
           stored == [g EXCEPT !.freq_data = Array(freq),
                               !.mag_data = Array(mag_db),
                               !.freq_source = "show_fft"]
       IN IF NoBins(freq)
          THEN [stored EXCEPT !.messagebox =
                  showinfo("No data",
                     "No frequency components found between 1 kHz and 200 MHz.")]
          ELSE [stored EXCEPT
                  !.ax = [xlim |-> <<min_freq, max_freq>>,
                          ylim |-> AutoLimits(mag_db),
                          xscale |-> "log",
                          title |-> "FFT Magnitude",
                          lines |-> [kind |-> "fft", x |-> freq, y |-> mag_db],
                          grid |-> TRUE],
                  !.showing_fft = TRUE]

\* a zoom that does not look at the events' keys
onselectAnyKey(g, eclick, erelease) ==
    LET x1 == eclick.xdata
        y1 == eclick.ydata
        x2 == erelease.xdata
        y2 == erelease.ydata
    IN IF None \in {x1, y1, x2, y2} THEN g
       ELSE [g EXCEPT !.ax =
                SetYLim(SetXLim(g.ax, Min2(x1, x2), Max2(x1, x2)),
                        Min2(y1, y2), Max2(y1, y2))]

\* lines 413-429
onselect(g, eclick, erelease) ==
    IF ControlIn(eclick.key) \/ ControlIn(erelease.key) THEN g
    ELSE
    LET x1 == eclick.xdata
        y1 == eclick.ydata
        x2 == erelease.xdata
        y2 == erelease.ydata
    IN IF None \in {x1, y1, x2, y2} THEN g
       ELSE [g EXCEPT !.ax =
                SetYLim(SetXLim(g.ax, Min2(x1, x2), Max2(x1, x2)),
                        Min2(y1, y2), Max2(y1, y2))]

\* lines 456-461
on_key_press(g, event) ==
    IF ControlIn(event.key)
    THEN [g EXCEPT !.ctrl_pressed = TRUE, !.rect_selector.active = FALSE]
    ELSE g

\* a release of CTRL that leaves the grid as the pan left it
on_key_releaseNoGrid(g, event) ==
    IF ControlIn(event.key)
    THEN LET g1 == [g EXCEPT !.ctrl_pressed = FALSE]
         IN IF g1.pan_start = None
            THEN [g1 EXCEPT !.rect_selector.active = TRUE]
            ELSE g1
    ELSE g

\* lines 463-473
on_key_release(g, event) ==
    IF ControlIn(event.key)
    THEN LET g1 == [g EXCEPT !.ctrl_pressed = FALSE]
             g2 == IF g1.pan_start = None
                   THEN [g1 EXCEPT !.rect_selector.active = TRUE]
                   ELSE g1
         IN IF g2.grid_disabled
            THEN [g2 EXCEPT !.ax.grid = TRUE, !.grid_disabled = FALSE]
            ELSE g2
    ELSE g

\* lines 480-484
key_press_event(g, event) ==
    IF ControlIn(event.key)
    THEN [g EXCEPT !.ctrl_pressed = TRUE, !.rect_selector.active = FALSE]
    ELSE g

\* lines 486-490
key_release_event(g, event) ==
    IF ControlIn(event.key)
    THEN [g EXCEPT !.ctrl_pressed = FALSE, !.rect_selector.active = TRUE]
    ELSE g

\* lines 495-513
plot_time_domain(g) ==
    IF g.time_data = None \/ g.voltage_data = None THEN g
    ELSE LET a == [xlim |-> AutoLimits(g.time_data.a),
                   ylim |-> AutoLimits(g.voltage_data.a),
                   xscale |-> "linear",
                   title |-> "Output Voltage vs Time",
                   lines |-> [kind |-> "time", x |-> g.time_data.a,
                              y |-> g.voltage_data.a],
                   grid |-> TRUE]
         IN [g EXCEPT !.ax = a, !.orig_xlim = a.xlim, !.orig_ylim = a.ylim,
                      !.showing_fft = FALSE]

\* a reset that answers every button
reset_zoomAnyButton(g, event) ==
    IF g.showing_fft THEN plot_time_domain(g)
    ELSE IF g.orig_xlim[1] # None
         THEN [g EXCEPT !.ax =
                 SetYLim(SetXLim(g.ax, g.orig_xlim[1], g.orig_xlim[2]),
                         g.orig_ylim[1], g.orig_ylim[2])]
    ELSE g

\* lines 515-525
reset_zoom(g, event) ==
    IF event.button # 3 THEN g
    ELSE IF g.showing_fft THEN plot_time_domain(g)
    ELSE IF g.orig_xlim[1] # None
         THEN [g EXCEPT !.ax =
                 SetYLim(SetXLim(g.ax, g.orig_xlim[1], g.orig_xlim[2]),
                         g.orig_ylim[1], g.orig_ylim[2])]
    ELSE g

\* a pan that begins whether or not CTRL is down
pan_start_eventAnyKey(g, event) ==
    IF event.button # 1 THEN g
    ELSE IF g.orig_xlim[1] = None THEN g
    ELSE IF /\ g.ax.xlim[1] = g.orig_xlim[1]
            /\ g.ax.xlim[2] = g.orig_xlim[2]
            /\ g.ax.ylim[1] = g.orig_ylim[1]
            /\ g.ax.ylim[2] = g.orig_ylim[2]
         THEN g
    ELSE IF event.x = None \/ event.y = None THEN g
    ELSE [g EXCEPT
            !.pan_start = [k |-> "pan", x |-> event.x, y |-> event.y,
                           xlim |-> g.ax.xlim, ylim |-> g.ax.ylim],
            !.pan_transform = [k |-> "frozen", xscale |-> g.ax.xscale,
                               xlim |-> g.ax.xlim, ylim |-> g.ax.ylim],
            !.rect_selector.active = FALSE,
            !.ax.grid = FALSE,
            !.grid_disabled = TRUE]

\* lines 529-556
pan_start_event(g, event) ==
    IF event.button # 1 \/ ~g.ctrl_pressed THEN g
    ELSE IF g.orig_xlim[1] = None THEN g
    ELSE IF /\ g.ax.xlim[1] = g.orig_xlim[1]
            /\ g.ax.xlim[2] = g.orig_xlim[2]
            /\ g.ax.ylim[1] = g.orig_ylim[1]
            /\ g.ax.ylim[2] = g.orig_ylim[2]
         THEN g
    ELSE IF event.x = None \/ event.y = None THEN g
    ELSE [g EXCEPT
            !.pan_start = [k |-> "pan", x |-> event.x, y |-> event.y,
                           xlim |-> g.ax.xlim, ylim |-> g.ax.ylim],
            !.pan_transform = [k |-> "frozen", xscale |-> g.ax.xscale,
                               xlim |-> g.ax.xlim, ylim |-> g.ax.ylim],
            !.rect_selector.active = FALSE,
            !.ax.grid = FALSE,
            !.grid_disabled = TRUE]

\* lines 558-576; on a log axis the frozen transform is not linear and the
\* displacement it gives is `stretch` times the linear one
pan_move_event(g, event, stretch) ==
    IF g.pan_start = None \/ event.x = None \/ event.y = None THEN g
    ELSE
    LET dx_pix == XSub(event.x, g.pan_start.x)
        dy_pix == XSub(event.y, g.pan_start.y)
        start_xlim == g.pan_start.xlim
        start_ylim == g.pan_start.ylim
        tr == g.pan_transform
        xspan == XSub(tr.xlim[2], tr.xlim[1])
        yspan == XSub(tr.ylim[2], tr.ylim[1])
        factor == IF tr.xscale = "log" THEN FromInt(stretch) ELSE FromInt(1)
        dx == XNeg(XMul(factor, XMul(dx_pix, xspan)))
        dy == XNeg(XMul(dy_pix, yspan))
    IN [g EXCEPT !.ax =
            SetYLim(SetXLim(g.ax, XAdd(start_xlim[1], dx),
                                  XAdd(start_xlim[2], dx)),
                    XAdd(start_ylim[1], dy), XAdd(start_ylim[2], dy))]

\* lines 578-588
pan_end_event(g, event) ==
    IF event.button = 1 /\ g.pan_start # None
    THEN LET g1 == [g EXCEPT !.pan_start = None, !.pan_transform = None]
         IN IF ~g1.ctrl_pressed
            THEN [g1 EXCEPT !.rect_selector.active = TRUE,
                            !.ax.grid = TRUE,
                            !.grid_disabled = FALSE]
            ELSE g1
    ELSE g

\* n/d rounded to the nearest integer, halves to the even one
RoundHalfEven(n, d) ==
    LET q == n \div d
        r == n - q * d
    IN IF 2 * r < d THEN q
       ELSE IF 2 * r > d THEN q + 1
       ELSE IF q % 2 = 0 THEN q ELSE q + 1

\* f"{x:.3f}": the decimal with three places nearest to x; nan and inf are
\* printed as words
Fixed3(x) ==
    IF IsFin(x) THEN [k |-> "fin", n |-> RoundHalfEven(x.n * 1000, x.d),
                      d |-> 1000]
    ELSE x

\* a StringVar set to f"{s}: {x:.3f} {unit}"; the unit follows from s
Text(s, x) == [k |-> "text", s |-> s, x |-> Fixed3(x)]

\* the values the spin boxes hold and the model in use when a run is made
Values(g) == [k |-> "values", r9_var |-> g.r9_var,
              current_model |-> g.current_model]

\* lines 643-660; lib_path is what the file dialog returned, empty when it
\* was cancelled (model_label_var follows current_model)
load_model(g, lib_path) ==
    IF lib_path = <<>> THEN g ELSE [g EXCEPT !.current_model = lib_path]

\* lines 666-722: `result` is what pyltspicetest1.run_simulation did, an
\* exception or the trace (t, v) with its measurements in V/s and s
run_simulation(g, result) ==
    IF g.current_model = <<>>
    THEN [g EXCEPT !.messagebox =
            showinfo("No model loaded",
               "Please load an op-amp model before running the simulation.")]
    ELSE
    LET drawn == [g EXCEPT !.last_schematic_img =
                    generate_schematic_image(g.r9_var, stem(g.current_model))]
    IN IF result.status # "ok"
       THEN [drawn EXCEPT !.messagebox =
                 showerror("Error", "Simulation failed")]
       ELSE [plot_time_domain(
                [drawn EXCEPT !.time_data = Array(result.t),
                              !.voltage_data = Array(result.v),
                              !.freq_data = None,
                              !.mag_data = None,
                              !.freq_source = "none",
                              !.run_values = Values(g)])
             EXCEPT !.labels =
                [slew_label_var |->
                    Text("90-10 Slew Rate",
                         XDiv(result.sr_90_10, FromInt(1000000))),
                 slew80_label_var |->
                    Text("80-20 Slew Rate",
                         XDiv(result.sr_80_20, FromInt(1000000))),
                 settling_label_var |->
                    Text("Settling Time",
                         XMul(result.settling_time, FromInt(1000000)))]]

\* the exponent e of a frequency 10 ** e (in GHz) of an AC sweep
Log10(x) == CHOOSE e \in -9..9 :
                x = (IF e < 0 THEN Q(1, 10 ^ (-e)) ELSE FromInt(10 ^ e))

\* the x limits autoscaling gives a log axis whose data are the decades s:
\* the data range, moved to the neighbouring decades when singular, widened
\* by the 5 % margin in the exponent
LogAutoLimits(s) ==
    LET es == [i \in 1..Len(s) |-> Log10(s[i])]
        a == IF SeqMin(es) = SeqMax(es) THEN SeqMin(es) - 1 ELSE SeqMin(es)
        b == IF SeqMin(es) = SeqMax(es) THEN SeqMax(es) + 1 ELSE SeqMax(es)
    IN <<Pow10(Q(20 * a - (b - a), 20)), Pow10(Q(20 * b + (b - a), 20))>>

\* lines 795-853: `result` is what pyltspicetest1.run_ac_simulation did, an
\* exception or the response (freq, mag)
run_ac(g, result) ==
    IF g.current_model = <<>>
    THEN [g EXCEPT !.messagebox =
            showinfo("No model loaded",
               "Please load an op-amp model before running the simulation.")]
    ELSE
    LET drawn == [g EXCEPT !.last_schematic_img =
                    generate_schematic_image(g.r9_var, stem(g.current_model))]
    IN IF result.status # "ok"
       THEN [drawn EXCEPT !.messagebox =
                 showerror("Error", "AC simulation failed")]
       ELSE LET a == [xlim |-> LogAutoLimits(result.freq),
                      ylim |-> AutoLimits(result.mag),
                      xscale |-> "log",
                      title |-> "AC Magnitude",
                      lines |-> [kind |-> "ac", x |-> result.freq,
                                 y |-> result.mag],
                      grid |-> TRUE]
            IN [drawn EXCEPT !.ax = a,
                             !.time_data = None,
                             !.voltage_data = None,
                             !.freq_data = Array(result.freq),
                             !.mag_data = Array(result.mag),
                             !.orig_xlim = a.xlim,
                             !.orig_ylim = a.ylim,
                             !.showing_fft = FALSE,
                             !.freq_source = "run_ac",
                             !.run_values = Values(g),
                             !.labels = [slew_label_var |-> NoText,
                                         slew80_label_var |-> NoText,
                                         settling_label_var |-> NoText]]

----------------------------------------------------------------------------
(* The GUI as a state machine: one action per event of the canvas, per    *)
(* widget callback and per button                                          *)

\* the x limits a rectangle selection can set on the current axes
ZoomXLims ==
    {SetXLim(ax, Min2(x1, x2), Max2(x1, x2)).xlim :
        x1 \in XData \ {None}, x2 \in XData \ {None}}

\* bound of the model: a pan begins only in a view set by a rectangle
\* selection or by the FFT plot, which caps the displacement pans can
\* accumulate
FreshView == ax.xlim \in ZoomXLims \cup {<<min_freq, max_freq>>}

\* key_press_event on the canvas: on_key_press (connected at line 475),
\* then key_press_event (line 492)
KeyPress ==
    \E key \in Keys :
        LET event == [key |-> key]
        IN SetGui(key_press_event(on_key_press(Gui, event), event),
                  "key_press")

\* key_release_event on the canvas: on_key_release (line 476), then
\* key_release_event (line 493)
KeyRelease ==
    \E key \in Keys :
        LET event == [key |-> key]
        IN SetGui(key_release_event(on_key_release(Gui, event), event),
                  "key_release")

\* button_press_event on the canvas: reset_zoom (line 527), then
\* pan_start_event (line 590)
ButtonPressWith(event) ==
    LET g == pan_start_event(reset_zoom(Gui, event), event)
    IN /\ g.pan_start # pan_start => FreshView
       /\ SetGui(g, "button_press")

ButtonPress ==
    \E button \in Buttons, x \in PixelXs, y \in PixelYs :
        ButtonPressWith([button |-> button, x |-> x, y |-> y])

\* motion_notify_event on the canvas: pan_move_event (line 591)
Motion ==
    \E x \in PixelXs, y \in PixelYs, stretch \in LogStretch :
        SetGui(pan_move_event(Gui, [x |-> x, y |-> y], stretch), "motion")

\* button_release_event on the canvas: pan_end_event (line 592)
ButtonRelease ==
    \E button \in Buttons :
        LET event == [button |-> button]
        IN SetGui(pan_end_event(Gui, event),
                  IF button = 1 /\ pan_start # None
                  THEN "pan_end" ELSE "button_release")

\* the corner events the rectangle selector hands to onselect
SelectEvents ==
    [xdata : XData, ydata : YData, key : {NoKey, "control"}]

\* a completed drag of the rectangle selector.  The widget calls onselect
\* only while it is active, and only for a press it saw: the left button is
\* down for the whole of a pan, so no drag completes within one
OnselectWith(eclick, erelease) ==
    /\ rect_selector.active
    /\ pan_start = None
    /\ SetGui(onselect(Gui, eclick, erelease), "onselect")

\* the corner events matplotlib produces: outside the axes both data
\* coordinates are None, inside both are numbers
CornerEvents ==
    {e \in SelectEvents : (e.xdata = None) <=> (e.ydata = None)}

Onselect ==
    \E eclick \in CornerEvents, erelease \in CornerEvents :
        OnselectWith(eclick, erelease)

\* the FFT button (line 389)
ShowFft == SetGui(show_fft(Gui), "show_fft")

\* the RUN button: the simulation fails or returns one of `traces`
RunSimulation(traces) ==
    \E result \in traces \cup {[status |-> "error"]} :
        SetGui(run_simulation(Gui, result), "run_simulation")

\* the abscissae that start at 0 and advance by steps from D
AxesOver(D, n) == {Cumulate(ds, n - 1) : ds \in SeqsOf(D, n - 1)}

\* traces of 1..MaxFftSamples samples over the steps FftDts
FftTraces ==
    UNION {{[status |-> "ok", t |-> t, v |-> [i \in 1..n |-> 0],
             sr_90_10 |-> NaN, sr_80_20 |-> NaN, settling_time |-> NaN] :
                t \in AxesOver(FftDts, n)} : n \in 1..MaxFftSamples}

\* three traces: one whose spectrum lies in the band, one whose spectrum
\* lies below it, and a single sample
GuiTraces ==
    {[status |-> "ok", t |-> <<0, 1, 5>>, v |-> <<0, 2, 1>>,
      sr_90_10 |-> NaN, sr_80_20 |-> NaN, settling_time |-> NaN],
     [status |-> "ok", t |-> <<0, 500000>>, v |-> <<0, 0>>,
      sr_90_10 |-> NaN, sr_80_20 |-> NaN, settling_time |-> NaN],
     [status |-> "ok", t |-> <<0>>, v |-> <<1>>,
      sr_90_10 |-> NaN, sr_80_20 |-> NaN, settling_time |-> NaN]}

InitGui == TraceIdle /\ FftIdle /\ GuiStart /\ ReportIdle

RunFftTrace == RunSimulation(FftTraces)

\* the corner events of a selection onselect does not ignore
ZoomEvents ==
    {e \in SelectEvents : e.key = NoKey /\ e.xdata # None /\ e.ydata # None}

\* a completed drag with both corners inside the axes and no key held
Zoom ==
    \E eclick \in ZoomEvents, erelease \in ZoomEvents :
        OnselectWith(eclick, erelease)

NextFft == RunFftTrace \/ Zoom \/ ShowFft \/ ButtonPress

SpecFft == InitGui /\ [][NextFft]_vars

RunGuiTrace == RunSimulation(GuiTraces)

NextGui ==
    \/ RunGuiTrace
    \/ KeyPress
    \/ KeyRelease
    \/ ButtonPress
    \/ Motion
    \/ ButtonRelease
    \/ Onselect
    \/ ShowFft

SpecGui == InitGui /\ [][NextGui]_vars

----------------------------------------------------------------------------
(* Properties of show_fft, checked under SpecFft *)

NoBandDialog ==
    showinfo("No data",
             "No frequency components found between 1 kHz and 200 MHz.")

\* the last callback was show_fft and it got as far as the band limit
FftStored ==
    /\ last_event.kind = "show_fft"
    /\ messagebox \in {None, NoBandDialog}

\* frequencies f and magnitudes m of equal length, without the DC bin,
\* inside the band, in increasing order of frequency
BandLimited(f, m) ==
    /\ Len(f) = Len(m)
    /\ \A i \in 1..Len(f) :
          /\ m[i] # 0
          /\ f[i] # FromInt(0)
          /\ IsFin(f[i])
          /\ 1000000 * f[i].n >= f[i].d
          /\ 5 * f[i].n <= f[i].d
    /\ \A i \in 1..(Len(f) - 1) : XLt(f[i], f[i + 1])

\* C13: every spectral result that show_fft stores or plots has frequency
\* and magnitude sequences of equal length, never contains the DC bin, and
\* contains only bins with 1 kHz <= f <= 200 MHz, in increasing order.
C13_SpectralResult ==
    /\ FftStored => BandLimited(freq_data.a, mag_data.a)
    /\ ax.lines.kind = "fft" => BandLimited(ax.lines.x, ax.lines.y)

\* a plotted spectrum whose last bin lies on the upper band limit
C13_Witness ==
    /\ FftStored
    /\ showing_fft
    /\ ax.lines.kind = "fft"
    /\ freq_data.a = <<Q(1, 10), max_freq>>
    /\ mag_data.a = <<1, 2>>

\* a spectrum that lost bin 1 (below the band) and kept bin 2, which lies on
\* the lower band limit
C13_WitnessLowerLimit ==
    /\ FftStored
    /\ freq_data.a = <<min_freq>>
    /\ mag_data.a = <<2>>

\* a spectrum that lost bin 2 (above the band)
C13_WitnessAbove ==
    /\ FftStored
    /\ showing_fft
    /\ time_data.a = <<0, 0, 4>>
    /\ freq_data.a = <<Q(1, 8)>>
    /\ mag_data.a = <<1>>

\* the time samples in view: all of them unless the x limits differ from
\* the recorded ones
ViewTimes ==
    LET lo == Min2(ax.xlim[1], ax.xlim[2])
        hi == Max2(ax.xlim[1], ax.xlim[2])
    IN IF orig_xlim[1] # None /\ ax.xlim # orig_xlim
       THEN SelectSeq(time_data.a,
                LAMBDA x : XLe(lo, FromInt(x)) /\ XLe(FromInt(x), hi))
       ELSE time_data.a

\* at least 2 samples are in view and none of the bins 1..fft_len/2 of
\* their spectrum lies in the band
ZeroBinsInBand ==
    /\ time_data # None
    /\ Len(ViewTimes) >= 2
    /\ LET n == Len(ViewTimes)
           span == ViewTimes[n] - ViewTimes[1]
           len == FftLen(n)
       IN \/ span = 0
          \/ \A b \in 1..(len \div 2) :
                \/ 1000000 * b * (n - 1) < len * span
                \/ 5 * b * (n - 1) > len * span

\* C14: when band-limiting leaves zero frequency bins, show_fft fails with
\* the no-data-in-band condition: it plots nothing, does not enter FFT view
\* and does not clear the axes.
C14_EmptyBand ==
    [][(last_event'.kind = "show_fft" /\ ZeroBinsInBand)
          => /\ messagebox' = NoBandDialog
             /\ ax' = ax
             /\ showing_fft' = showing_fft]_vars

\* show_fft has just failed on an empty band and the time plot is still up
C14_Witness ==
    /\ last_event.kind = "show_fft"
    /\ messagebox = NoBandDialog
    /\ ~showing_fft
    /\ ax.lines.kind = "time"
    /\ freq_data = Array(<<>>)
----------------------------------------------------------------------------
(* The magnitude show_fft computes for a sinusoid of 1 Vrms
   (src/gui_runtime.py, lines 325-347) *)

\* sample counts whose Hann coefficients are rational
SineLens == {4, 5, 7}

\* sampling steps in ns; the sinusoid has four samples a period, so its
\* frequency 1/(4 dt) GHz is between 1 kHz and 200 MHz
SineDts == {2, 5, 10, 20, 50, 100, 1000, 10000, 100000}

\* sqrt(2) sin(pi k / 2 + pi / 4 + pi p / 2), k = 0..n-1: a sinusoid of
\* amplitude sqrt(2), i.e. 1 Vrms, sampled where it takes the values 1 and -1
UnitSine(n, p) ==
    [i \in 1..n |-> IF ((i - 1 + p) % 4) < 2 THEN 1 ELSE -1]

\* the times 0, dt, 2 dt, ...
UniformAxis(n, dt) == [i \in 1..n |-> (i - 1) * dt]

\* line 326: np.linspace(start, stop, num)
linspace(start, stop, num) ==
    [i \in 1..num |-> Q(start * (num - 1) + (i - 1) * (stop - start), num - 1)]

\* np.interp(x, xp, fp) for one x and increasing xp
np_interp(x, xp, fp) ==
    LET n == Len(xp)
    IN IF x.n <= xp[1] * x.d THEN FromInt(fp[1])
       ELSE IF x.n >= xp[n] * x.d THEN FromInt(fp[n])
       ELSE LET i == CHOOSE j \in 1..(n - 1) :
                        xp[j] * x.d <= x.n /\ x.n < xp[j + 1] * x.d
            IN Interp(x, <<xp[i], xp[i + 1]>>, <<fp[i], fp[i + 1]>>)

\* the sum of s[1..i]
RECURSIVE SumTo(_, _)
SumTo(s, i) == IF i = 0 THEN FromInt(0) ELSE XAdd(SumTo(s, i - 1), s[i])

\* np.mean
mean(s) == XDiv(SumTo(s, Len(s)), FromInt(Len(s)))

\* cos(2 pi k / m) for the m whose cosines are rational (1, 2, 3, 4, 6)
CosTurn(k, m) ==
    LET j == ((12 * k) \div m) % 12
    IN CASE j = 0 -> FromInt(1)
         [] j \in {2, 10} -> Q(1, 2)
         [] j \in {3, 9} -> FromInt(0)
         [] j \in {4, 8} -> Q(-1, 2)
         [] j = 6 -> FromInt(-1)

\* line 331: np.hanning(M) = 0.5 - 0.5 cos(2 pi k / (M - 1)), k = 0..M-1
hanning(M) ==
    [i \in 1..M |-> XSub(Q(1, 2), XMul(Q(1, 2), CosTurn(i - 1, M - 1)))]

\* lines 338-341: np.pad(v, (0, fft_len - len(v))) or v[:fft_len]
PadOrCut(v, fft_len) ==
    [i \in 1..fft_len |-> IF i <= Len(v) THEN v[i] ELSE FromInt(0)]

\* line 343: the bin fft_len / 4 of np.fft.rfft, whose twiddle factors
\* exp(-2 pi i j / 4) are 1, -i, -1, i; the sums over v[1..i]
RECURSIVE RfftQuarterRe(_, _)
RfftQuarterRe(v, i) ==
    IF i = 0 THEN FromInt(0)
    ELSE XAdd(RfftQuarterRe(v, i - 1),
              CASE (i - 1) % 4 = 0 -> v[i]
                [] (i - 1) % 4 = 2 -> XNeg(v[i])
                [] OTHER -> FromInt(0))

RECURSIVE RfftQuarterIm(_, _)
RfftQuarterIm(v, i) ==
    IF i = 0 THEN FromInt(0)
    ELSE XAdd(RfftQuarterIm(v, i - 1),
              CASE (i - 1) % 4 = 1 -> XNeg(v[i])
                [] (i - 1) % 4 = 3 -> v[i]
                [] OTHER -> FromInt(0))

\* lines 325-345 for the bin fft_len / 4: the bin's frequency and the square
\* of |fft_vals| after the scaling (2 / fft_len) / sqrt(2)
SineSpectrum(t_sel, v_sel) ==
    LET n == Len(t_sel)
        uniform_t == linspace(t_sel[1], t_sel[n], n)
        v_interp == [i \in 1..n |-> np_interp(uniform_t[i], t_sel, v_sel)]
        dt == XSub(uniform_t[2], uniform_t[1])
        window == hanning(n)
        m == mean(v_interp)
        v_detrended == [i \in 1..n |-> XSub(v_interp[i], m)]
        fft_len == FftLen(n)
        freq == rfftfreq(fft_len, dt)
        v_windowed == PadOrCut([i \in 1..n |-> XMul(v_detrended[i], window[i])],
                               fft_len)
        re == RfftQuarterRe(v_windowed, fft_len)
        im == RfftQuarterIm(v_windowed, fft_len)
        abs2 == XAdd(XMul(re, re), XMul(im, im))
    IN [status |-> "ok",
        fft_len |-> fft_len,
        bin |-> fft_len \div 4,
        freq |-> freq[fft_len \div 4 + 1],
        power |-> XDiv(XMul(Q(4, fft_len * fft_len), abs2), FromInt(2))]

InitSine ==
    /\ \E n \in SineLens, dt \in SineDts, p \in 0..3 :
          /\ time_arr = UniformAxis(n, dt)
          /\ v_arr = UnitSine(n, p)
          /\ n_sel = n
    /\ xlim = NoWindow
    /\ vpp_out = NotCalled
    /\ tr_out = NotCalled
    /\ fft_out = NotCalled
    /\ GuiStart
    /\ ReportIdle

ComputeSineSpectrum ==
    /\ fft_out = NotCalled
    /\ fft_out' = SineSpectrum(time_arr, v_arr)
    /\ UNCHANGED <<n_sel, traceVars, guiVars, reportVars>>

NextSine == ComputeSineSpectrum

SpecSine == InitSine /\ [][NextSine]_vars

\* the frequency of the sampled sinusoid, in GHz
SineFreq == Q(1, 4 * (time_arr[2] - time_arr[1]))

\* the spectrum has been computed
SineDone == fft_out # NotCalled

\* 3 dB below and above 0 dB, as squared magnitudes (10^(-0.3), 10^(0.3))
DbLow == Q(1, 2)
DbHigh == FromInt(2)

\* C16: a sinusoid of 1 Vrms at a frequency between 1 kHz and 200 MHz reads
\* near 0 dB at the bin nearest its frequency: the squared magnitude of that
\* bin is within 3 dB of 1 (the scalloping loss of a Hann window is below
\* 1.5 dB)
C16_UnitSineZeroDb ==
    SineDone =>
        /\ fft_out.freq = SineFreq
        /\ XGe(SineFreq, min_freq) /\ XLe(SineFreq, max_freq)
        /\ XGe(fft_out.power, DbLow)
        /\ XLe(fft_out.power, DbHigh)

\* what the code gives: the bin is the sinusoid's and in band, and its
\* squared magnitude is at most 1/4 (-6 dB), the square of the Hann window's
\* mean, which the scaling leaves out
SineReadsLow ==
    SineDone =>
        /\ fft_out.freq = SineFreq
        /\ XGe(SineFreq, min_freq) /\ XLe(SineFreq, max_freq)
        /\ XLe(fft_out.power, Q(1, 4))

\* seven samples, zero padded to eight: the squared magnitude is 925/6272,
\* -8.3 dB
SineSevenSamples ==
    /\ SineDone
    /\ v_arr = <<1, -1, -1, 1, 1, -1, -1>>
    /\ fft_out.fft_len = 8
    /\ fft_out.power = Q(925, 6272)
----------------------------------------------------------------------------
(* Releasing CTRL during a pan, checked under SpecGui *)

\* a pan is in progress and CTRL is up: a pan begins only with CTRL down
\* (line 532), so CTRL was released after the pan began
CtrlReleasedMidPan == pan_start # None /\ ~ctrl_pressed

\* C18: when CTRL has been released while a pan is in progress, the
\* rectangle selector is inactive from the key release until the left-button
\* release that ends the pan, with every key-release handler connected to
\* the canvas having run.
C18_SelectorOffMidPan == CtrlReleasedMidPan => ~rect_selector.active

\* what on_key_release (lines 463-473) alone would leave behind, and what the
\* two handlers leave behind together
ReleaseHandlersDisagree ==
    /\ CtrlReleasedMidPan
    /\ last_event.kind = "key_release"
    /\ rect_selector.active
----------------------------------------------------------------------------
(* Rectangle zoom, checked under SpecGui *)

\* a selection onselect ignores: CTRL in a key, or a corner outside the axes
Ignored(eclick, erelease) ==
    \/ ControlIn(eclick.key) \/ ControlIn(erelease.key)
    \/ None \in {eclick.xdata, eclick.ydata, erelease.xdata, erelease.ydata}

\* the pair (min(a, b), max(a, b))
Ordered(a, b) == IF XLe(a, b) THEN <<a, b>> ELSE <<b, a>>

\* lim is an interval of positive width with p strictly inside
Around(lim, p) == XLt(lim[1], p) /\ XLt(p, lim[2])

\* a rectangle selection can complete: the selector is active and no pan
\* holds the left button
CanSelect == rect_selector.active /\ pan_start = None

\* C19 as stated: every selection that is not ignored sets the x limits to
\* (min(x1, x2), max(x1, x2)) and the y limits to (min(y1, y2), max(y1, y2));
\* an ignored one leaves both unchanged.
C19_RectangleZoomAny ==
    CanSelect =>
        \A eclick \in SelectEvents, erelease \in SelectEvents :
            LET after == onselect(Gui, eclick, erelease).ax
            IN IF Ignored(eclick, erelease)
               THEN after.xlim = ax.xlim /\ after.ylim = ax.ylim
               ELSE /\ after.xlim = Ordered(eclick.xdata, erelease.xdata)
                    /\ after.ylim = Ordered(eclick.ydata, erelease.ydata)

\* C19: in every state in which a selection can complete (the state a
\* completed pan leaves included), a selection that is not ignored sets the
\* x limits to (min(x1, x2), max(x1, x2)) when x1 # x2 and the y limits to
\* (min(y1, y2), max(y1, y2)) when y1 # y2; when the two coordinates are
\* equal the limits become an interval of positive width around them; an
\* ignored selection leaves both limits unchanged.
C19_RectangleZoom ==
    CanSelect =>
        \A eclick \in SelectEvents, erelease \in SelectEvents :
            LET after == onselect(Gui, eclick, erelease).ax
                x1 == eclick.xdata
                y1 == eclick.ydata
                x2 == erelease.xdata
                y2 == erelease.ydata
            IN IF Ignored(eclick, erelease)
               THEN after.xlim = ax.xlim /\ after.ylim = ax.ylim
               ELSE /\ IF x1 # x2 THEN after.xlim = Ordered(x1, x2)
                       ELSE Around(after.xlim, x1)
                    /\ IF y1 # y2 THEN after.ylim = Ordered(y1, y2)
                       ELSE Around(after.ylim, y1)

\* a selection made directly after the left-button release that ended a pan
\* has set the limits to its rectangle
C19_Witness ==
    /\ last_event = [kind |-> "onselect", prev |-> "pan_end"]
    /\ ax.xlim = <<FromInt(1), FromInt(5)>>
    /\ ax.ylim = <<FromInt(0), FromInt(2)>>
    /\ ax.lines.kind = "time"

\* the same on the logarithmic axis of the FFT plot
C19_WitnessLogAxis ==
    /\ last_event = [kind |-> "onselect", prev |-> "pan_end"]
    /\ ax.xscale = "log"
    /\ ax.xlim = <<FromInt(1), FromInt(5)>>
    /\ ax.ylim = <<FromInt(0), FromInt(2)>>

\* a rectangle of no width: the limits are not (5, 5)
C19_WitnessNoWidth ==
    /\ last_event.kind = "onselect"
    /\ ax.xscale = "linear"
    /\ ax.xlim = <<Q(19, 4), Q(21, 4)>>
----------------------------------------------------------------------------
(* generate_pdf_report (src/report.py) *)

\* a PDF file with the given pages
Pdf(pages) == [k |-> "pdf", pages |-> pages]

\* a page: what it shows, its title, and whether the measurement text is
\* on it
Page(kind, title, text) == [kind |-> kind, title |-> title, text |-> text]

\* the arguments that decide the pages: whether a schematic image, the time
\* data, the frequency data and a non-empty list of measurements are given,
\* and the title of the frequency plot
ReportArgs ==
    [schematic_image : BOOLEAN, time_data : BOOLEAN, freq_data : BOOLEAN,
     measurements : BOOLEAN, freq_plot_title : {"FFT Magnitude", "AC Magnitude"}]

\* lines 63-113: the figures, in the order they are appended
Figures(a) ==
    (IF a.schematic_image
     THEN <<Page("schematic", "", a.measurements)>> ELSE <<>>)
    \o (IF a.time_data
        THEN <<Page("time", "Output Voltage vs Time", FALSE)>> ELSE <<>>)
    \o (IF a.freq_data
        THEN <<Page("freq", a.freq_plot_title, FALSE)>> ELSE <<>>)
    \o (IF a.measurements /\ ~a.schematic_image
        THEN <<Page("measurements", "", TRUE)>> ELSE <<>>)

\* a generator that replaces the output file even when asked to append
generate_pdf_report_replace(d, output_file, a, append) ==
    LET temp_pdf == with_suffix_tmp_pdf(output_file)
        d1 == [d EXCEPT ![temp_pdf] = Pdf(Figures(a))]
    IN [d1 EXCEPT ![output_file] = d1[temp_pdf], ![temp_pdf] = None]

\* lines 115-131: the figures are saved to the temporary file, which is
\* then appended to the output file and unlinked, or moved over it
generate_pdf_report(d, output_file, a, append) ==
    LET temp_pdf == with_suffix_tmp_pdf(output_file)
        d1 == [d EXCEPT ![temp_pdf] = Pdf(Figures(a))]
    IN IF append /\ d1[output_file] # None
       THEN LET writer == d1[output_file].pages \o d1[temp_pdf].pages
            IN [d1 EXCEPT ![output_file] = Pdf(writer), ![temp_pdf] = None]
       ELSE [d1 EXCEPT ![output_file] = d1[temp_pdf], ![temp_pdf] = None]

\* the length the output file will have
PagesAfter(output_file, a, append) ==
    Len(Figures(a))
    + (IF append /\ disk[output_file] # None
       THEN Len(disk[output_file].pages) ELSE 0)

InitReport == TraceIdle /\ FftIdle /\ GuiStart /\ ReportIdle

\* a call with at least one figure (with none, whether PdfPages leaves a
\* file behind depends on the matplotlib version)
GeneratePdfReport ==
    \E a \in ReportArgs, append \in BOOLEAN :
        /\ Figures(a) # <<>>
        /\ PagesAfter(ReportFile, a, append) <= MaxPages
        /\ disk' = generate_pdf_report(disk, ReportFile, a, append)
        /\ report_call' = [k |-> "call", output_file |-> ReportFile,
                           args |-> a, append |-> append]
        /\ UNCHANGED <<traceVars, fftVars, guiVars>>

NextReport == GeneratePdfReport

SpecReport == InitReport /\ [][NextReport]_vars

\* the pages of the file at path p, none when it does not exist
PagesOf(d, p) == IF d[p] = None THEN <<>> ELSE d[p].pages

\* C20: after generate_pdf_report the output file holds the pages it held
\* before, in their order, followed by the new pages when append is true and
\* the file existed, and exactly the new pages otherwise; the temporary
\* .tmp.pdf file does not exist.
C20_AppendOrReplace ==
    [][reportVars' # reportVars =>
          LET out == report_call'.output_file
              new == Figures(report_call'.args)
          IN /\ disk'[out] # None
             /\ disk'[out].pages =
                   IF report_call'.append /\ disk[out] # None
                   THEN disk[out].pages \o new ELSE new
             /\ disk'[with_suffix_tmp_pdf(out)] = None]_vars

\* a report of two pages has been appended to one of two pages
C20_Witness ==
    /\ report_call # None
    /\ report_call.append
    /\ Len(Figures(report_call.args)) = 2
    /\ Len(PagesOf(disk, ReportFile)) = 4
    /\ SubSeq(disk[ReportFile].pages, 3, 4) = Figures(report_call.args)
    /\ SubSeq(disk[ReportFile].pages, 1, 2) # Figures(report_call.args)
    /\ disk[with_suffix_tmp_pdf(ReportFile)] = None

\* a report written without append: the file holds the new pages only
C20_WitnessReplaced ==
    /\ report_call # None
    /\ ~report_call.append
    /\ disk[ReportFile] = Pdf(Figures(report_call.args))
    /\ disk[with_suffix_tmp_pdf(ReportFile)] = None
----------------------------------------------------------------------------
(* The sign of the slew rates, checked under SpecTransient *)

\* x is NaN or a finite number above zero
NaNOrPositive(x) == IsNaN(x) \/ (IsFin(x) /\ XGt(x, FromInt(0)))

\* the upper crossing, when both were found, is not before the lower one
NotBefore(t_lo, t_hi) == (t_lo # None /\ t_hi # None) => XGe(t_hi, t_lo)

\* C27: on non-decreasing time each of sr_90_10 and sr_80_20 is NaN or
\* strictly positive, and whenever both crossings of a pair were found
\* t90 >= t10 and t80 >= t20.
C27_SlewSign ==
    TrReturned =>
        /\ NaNOrPositive(tr_out.slew_rate_90_10)
        /\ NaNOrPositive(tr_out.slew_rate_80_20)
        /\ NotBefore(tr_out.t_10, tr_out.t_90)
        /\ NotBefore(tr_out.t_20, tr_out.t_80)

\* a positive 90-10 rate next to an 80-20 rate that is NaN because t80 = t20
\* on a vertical edge
C27_Witness ==
    /\ TrReturned
    /\ IsFin(tr_out.slew_rate_90_10)
    /\ XGt(tr_out.slew_rate_90_10, FromInt(0))
    /\ tr_out.t_20 # None /\ tr_out.t_80 = tr_out.t_20
    /\ IsNaN(tr_out.slew_rate_80_20)

\* t90 found in a later pair than t10, well after it
C27_WitnessLaterPair ==
    /\ TrReturned
    /\ tr_out.t_10 # None /\ tr_out.t_90 # None
    /\ XGe(XSub(tr_out.t_90, tr_out.t_10), FromInt(2))
    /\ IsFin(tr_out.slew_rate_90_10)
----------------------------------------------------------------------------
(* The selector and the grid at rest, checked under SpecGui *)

\* no pan is in progress and CTRL is up
AtRest == pan_start = None /\ ~ctrl_pressed

\* C23: whenever no pan is in progress and CTRL is not pressed, the
\* rectangle selector is active and the grid is not left disabled.
C23_SelectorAtRest ==
    AtRest => (rect_selector.active /\ ~grid_disabled)

\* at rest again after a pan that ended with CTRL still down: the release of
\* the button left the selector off and the grid disabled, the release of
\* CTRL has just restored both
C23_Witness ==
    /\ AtRest
    /\ last_event.kind = "key_release"
    /\ rect_selector.active
    /\ ax.grid
    /\ ax.xlim \notin ZoomXLims \cup {<<min_freq, max_freq>>, orig_xlim}

\* a pan has ended with CTRL still down
C23_WitnessCtrlHeld ==
    /\ pan_start = None
    /\ ctrl_pressed
    /\ last_event.kind = "pan_end"
    /\ grid_disabled
    /\ ~rect_selector.active
----------------------------------------------------------------------------
(* The beginning of a pan, checked under SpecGui *)

\* the button events of the canvas
ButtonEvents == [button : Buttons, x : PixelXs, y : PixelYs]

\* what pan_start_event asks for: the left button with CTRL down, recorded
\* original limits, a view that differs from them, and pixel coordinates
PanConditions(event) ==
    /\ event.button = 1
    /\ ctrl_pressed
    /\ orig_xlim[1] # None
    /\ ~ (ax.xlim = orig_xlim /\ ax.ylim = orig_ylim)
    /\ event.x # None /\ event.y # None

\* C21: in every state, whatever button event the canvas dispatches next
\* to reset_zoom and pan_start_event, it begins a pan (pan_start holds the
\* pointer position and the current limits, the selector is off, the grid
\* hidden and grid_disabled set) when the left button is pressed with CTRL down,
\* original limits recorded, the view different from them and pixel
\* coordinates present; every other press leaves pan_start, pan_transform,
\* grid_disabled and the selector as they were; a pointer motion with no pan
\* in progress leaves the limits as they were.
C21_PanBegins ==
    /\ \A event \in ButtonEvents :
          LET g == pan_start_event(reset_zoom(Gui, event), event)
          IN IF PanConditions(event)
             THEN /\ g.pan_start = [k |-> "pan", x |-> event.x,
                                    y |-> event.y, xlim |-> ax.xlim,
                                    ylim |-> ax.ylim]
                  /\ g.pan_transform # None
                  /\ ~g.rect_selector.active
                  /\ ~g.ax.grid
                  /\ g.grid_disabled
             ELSE /\ g.pan_start = pan_start
                  /\ g.pan_transform = pan_transform
                  /\ g.grid_disabled = grid_disabled
                  /\ g.rect_selector = rect_selector
    /\ pan_start = None =>
          \A x \in PixelXs, y \in PixelYs, stretch \in LogStretch :
              LET g == pan_move_event(Gui, [x |-> x, y |-> y], stretch)
              IN g.ax.xlim = ax.xlim /\ g.ax.ylim = ax.ylim

\* a pan has just begun on the FFT plot
C21_Witness ==
    /\ last_event.kind = "button_press"
    /\ pan_start # None
    /\ pan_start.xlim = <<min_freq, max_freq>>
    /\ ~rect_selector.active
    /\ grid_disabled

\* a press with CTRL down, original limits recorded and the view equal to
\* them has begun no pan
C21_WitnessOriginalView ==
    /\ last_event.kind = "button_press"
    /\ ctrl_pressed
    /\ orig_xlim[1] # None
    /\ ax.xlim = orig_xlim /\ ax.ylim = orig_ylim
    /\ pan_start = None
    /\ ~grid_disabled

\* a motion during a pan has moved the view
C21_WitnessMoved ==
    /\ last_event.kind = "motion"
    /\ pan_start # None
    /\ ax.xlim # pan_start.xlim
----------------------------------------------------------------------------
(* The right-click, checked under SpecGui *)

\* the axes show the stored time-domain trace
ShowsTimeTrace(a) ==
    /\ a.lines = [kind |-> "time", x |-> time_data.a, y |-> voltage_data.a]
    /\ a.xscale = "linear"
    /\ a.title = "Output Voltage vs Time"

\* C22: in every state, whatever button event the canvas dispatches next to
\* reset_zoom and pan_start_event: a press of button 3 while showing_fft is
\* true plots the stored time-domain trace again and sets showing_fft to
\* false; a press of button 3
\* while showing_fft is false sets the x and y limits to the recorded
\* original limits when there are any, and leaves the view mode alone; a
\* press of any other button changes neither showing_fft nor the limits.
C22_RightClick ==
    \A event \in ButtonEvents :
        LET g == pan_start_event(reset_zoom(Gui, event), event)
        IN IF event.button = 3 /\ showing_fft
           THEN /\ ShowsTimeTrace(g.ax)
                /\ ~g.showing_fft
           ELSE IF event.button = 3 /\ orig_xlim[1] # None
           THEN /\ g.ax.xlim = orig_xlim
                /\ g.ax.ylim = orig_ylim
                /\ g.showing_fft = showing_fft
           ELSE /\ g.showing_fft = showing_fft
                /\ g.ax.xlim = ax.xlim
                /\ g.ax.ylim = ax.ylim

\* a right-click has left the FFT plot for the time-domain trace: the
\* spectrum is still stored, and only reset_zoom plots the trace over it
C22_Witness ==
    /\ last_event.kind = "button_press"
    /\ ~showing_fft
    /\ freq_data # None
    /\ ShowsTimeTrace(ax)
    /\ ax.xlim = orig_xlim /\ ax.ylim = orig_ylim

\* a press on the FFT plot that was not a right-click has left it showing
C22_WitnessLeftPress ==
    /\ last_event.kind = "button_press"
    /\ showing_fft
    /\ ax.xscale = "log"
----------------------------------------------------------------------------
(* The FFT that finds no bin in the band, checked under SpecFft *)

\* C24: a show_fft that ends with the no-data-in-band message leaves
\* freq_data, mag_data and showing_fft exactly as they were before the call.
C24_FailedFftKeepsData ==
    [][(last_event'.kind = "show_fft" /\ messagebox' = NoBandDialog) =>
         /\ freq_data' = freq_data
         /\ mag_data' = mag_data
         /\ showing_fft' = showing_fft]_vars

\* what C24 gets right: the failed call leaves the view mode and the axes
\* as they were
C24_FailedFftKeepsView ==
    [][(last_event'.kind = "show_fft" /\ messagebox' = NoBandDialog) =>
         /\ showing_fft' = showing_fft
         /\ ax' = ax]_vars

\* a failed FFT has stored empty arrays
C24_WitnessEmptied ==
    /\ last_event.kind = "show_fft"
    /\ messagebox = NoBandDialog
    /\ freq_data = Array(<<>>)
    /\ mag_data = Array(<<>>)
----------------------------------------------------------------------------
(* The buttons of the main window (src/gui_runtime.py): RUN, RUN AC, FFT,  *)
(* Save PDF, the model dialog, the R9 spin box and the append check box    *)

\* the model files the file dialog can return
Models == {LastModel, <<"OPA", "lib">>}

\* the values the R9 spin box takes (line 177: steps of 100)
R9Values == {R9Default, R9Default + 100}

\* what the simulation layer returns for a transient run: a step with its
\* measurements, and a flat trace whose measurements are nan
AppTraces ==
    {[status |-> "ok", t |-> <<0, 1, 5>>, v |-> <<0, 2, 2>>,
      sr_90_10 |-> FromInt(2000000), sr_80_20 |-> FromInt(2500000),
      settling_time |-> Q(1, 1000000)],
     [status |-> "ok", t |-> <<0, 500000>>, v |-> <<0, 0>>,
      sr_90_10 |-> NaN, sr_80_20 |-> NaN, settling_time |-> NaN]}

\* what it returns for an AC sweep: the response at 1 kHz, 1 MHz
AcResponses ==
    {[status |-> "ok", freq |-> <<Q(1, 1000000), Q(1, 1000)>>,
      mag |-> <<0, -3>>]}

\* lines 730-772: the report of the current results. The file name holds
\* the time to the second (746-747); the reports of the model are written
\* within one second, so the name is ReportFile.
save_pdf(g, d) ==
    LET meas == {l \in {g.labels.slew_label_var, g.labels.slew80_label_var,
                        g.labels.settling_label_var} : l # NoText}
        file == IF g.current_report_file = None \/ ~g.append_var
                THEN ReportFile ELSE g.current_report_file.p
        a == [schematic_image |-> g.last_schematic_img # None,
              time_data |-> g.time_data # None /\ g.voltage_data # None,
              freq_data |-> g.freq_data # None /\ g.mag_data # None,
              measurements |-> meas # {},
              freq_plot_title |-> IF g.showing_fft THEN "FFT Magnitude"
                                  ELSE "AC Magnitude"]
    IN [g |-> [g EXCEPT !.current_report_file = [k |-> "path", p |-> file],
                        !.messagebox = showinfo("PDF Saved", "Report written")],
        disk |-> generate_pdf_report(d, file, a, g.append_var),
        call |-> [k |-> "call", output_file |-> file, args |-> a,
                  append |-> g.append_var]]

\* the "Load Model" button (line 900)
LoadModel ==
    \E lib_path \in Models \cup {<<>>} :
        SetGui(load_model(Gui, lib_path), "load_model")

\* the R9 spin box (line 177)
SpinR9 ==
    \E r9 \in R9Values \ {r9_var} :
        SetGui([Gui EXCEPT !.r9_var = r9], "spin")

\* the append check box (line 870)
ToggleAppend == SetGui([Gui EXCEPT !.append_var = ~append_var], "append")

\* the RUN button (line 782)
RunApp == RunSimulation(AppTraces)

\* the RUN AC button (line 862): the sweep fails or returns a response
RunAc ==
    \E result \in AcResponses \cup {[status |-> "error"]} :
        SetGui(run_ac(Gui, result), "run_ac")

\* a press of the right mouse button on the canvas
RightClick == ButtonPressWith([button |-> 3, x |-> None, y |-> None])

\* the Save PDF button (line 790); reports of at most MaxPages pages
SavePdf ==
    LET r == save_pdf(Gui, disk)
    IN /\ Len(r.disk[r.call.output_file].pages) <= MaxPages
       /\ SetNonlocals(r.g, "save_pdf")
       /\ disk' = r.disk
       /\ report_call' = r.call
       /\ UNCHANGED <<traceVars, fftVars>>

InitApp ==
    /\ TraceIdle
    /\ FftIdle
    /\ ReportIdle
    /\ \E model \in {<<>>, LastModel} : GuiStartWith(model)

NextApp ==
    \/ LoadModel
    \/ SpinR9
    \/ ToggleAppend
    \/ RunApp
    \/ RunAc
    \/ ShowFft
    \/ RightClick
    \/ SavePdf

SpecApp == InitApp /\ [][NextApp]_vars
----------------------------------------------------------------------------
(* The title of the frequency page, checked under SpecApp *)

\* the report just written has a frequency page: its last page
SavedFreqPage ==
    /\ last_event.kind = "save_pdf"
    /\ report_call.args.freq_data

\* C25: the frequency page of a report that is saved is titled "FFT
\* Magnitude" exactly when the stored freq_data / mag_data were assigned by
\* show_fft, and "AC Magnitude" exactly when they were assigned by run_ac.
C25_FrequencyTitle ==
    SavedFreqPage =>
        LET pages == disk[report_call.output_file].pages
            title == pages[Len(pages)].title
        IN /\ pages[Len(pages)].kind = "freq"
           /\ title = "FFT Magnitude" <=> freq_source = "show_fft"
           /\ title = "AC Magnitude" <=> freq_source = "run_ac"

\* what C25 gets right: while the FFT plot is showing the page is titled
\* "FFT Magnitude" and the data are show_fft's, and the data of an AC sweep
\* are titled "AC Magnitude"
C25_TitleWhileShowing ==
    SavedFreqPage =>
        LET pages == disk[report_call.output_file].pages
            title == pages[Len(pages)].title
        IN /\ showing_fft => (title = "FFT Magnitude"
                              /\ freq_source = "show_fft")
           /\ freq_source = "run_ac" => title = "AC Magnitude"

\* a spectrum saved after the right-click that left the FFT plot: the page
\* is titled "AC Magnitude"
C25_WitnessFftAsAc ==
    /\ SavedFreqPage
    /\ freq_source = "show_fft"
    /\ freq_data # Array(<<>>)
    /\ ax.lines.kind = "time"
    /\ disk[ReportFile].pages[Len(disk[ReportFile].pages)]
          = Page("freq", "AC Magnitude", FALSE)

\* the response of an AC sweep saved under its own title
C25_WitnessAc ==
    /\ SavedFreqPage
    /\ freq_source = "run_ac"
    /\ disk[ReportFile].pages[Len(disk[ReportFile].pages)]
          = Page("freq", "AC Magnitude", FALSE)
----------------------------------------------------------------------------
(* The schematic and the stored trace, checked under SpecApp *)

\* the image generate_schematic_image draws for the values v
SchematicOf(v) == generate_schematic_image(v.r9_var, stem(v.current_model))

\* C26: whenever a run has stored trace data, the schematic image stored in
\* last_schematic_img is the one generated from the component values of
\* that run.
C26_SchematicOfRun ==
    run_values # None => last_schematic_img = SchematicOf(run_values)

\* what C26 gets right: it is so when a RUN or a RUN AC has just succeeded
C26_SchematicAfterSuccess ==
    (last_event.kind \in {"run_simulation", "run_ac"} /\ messagebox = None)
        => /\ run_values # None
           /\ last_schematic_img = SchematicOf(run_values)

\* a RUN that failed after R9 was changed: the trace of the earlier run is
\* still stored and plotted, the schematic shows the new R9
C26_WitnessFailedRun ==
    /\ last_event.kind = "run_simulation"
    /\ messagebox = showerror("Error", "Simulation failed")
    /\ time_data # None
    /\ ax.lines.kind = "time"
    /\ run_values.r9_var = R9Default
    /\ last_schematic_img.r9_value = R9Default + 100

\* a report saved in that state: the schematic of one R9 on its first page,
\* the waveform of the other on its second
C26_WitnessSaved ==
    /\ last_event.kind = "save_pdf"
    /\ report_call.args.schematic_image
    /\ report_call.args.time_data
    /\ run_values # None
    /\ last_schematic_img # SchematicOf(run_values)
----------------------------------------------------------------------------
(* The calls into pyltspicetest1 (src/pyltspicetest1.py)                   *)

\* the functions the module defines, each with the number of parameters it
\* takes (none has *args or keyword-only parameters)
pyltspicetest1 ==
    [first_subckt_name |-> 1, create_placeholder_image |-> 1,
     run_simulation |-> 9, main |-> 0]

\* module.name(nargs positional arguments): AttributeError when the module
\* has no such attribute, TypeError when the function takes fewer
\* parameters, and otherwise what the function does
Call(module, name, nargs, outcome) ==
    IF name \notin DOMAIN module
    THEN [status |-> "error", exc |-> "AttributeError"]
    ELSE IF nargs > module[name]
    THEN [status |-> "error", exc |-> "TypeError"]
    ELSE outcome

\* the RUN button with a simulation that succeeds whenever it is called:
\* line 696 passes eleven positional arguments
RunCall ==
    \E outcome \in AppTraces :
        SetGui(run_simulation(Gui,
                   Call(pyltspicetest1, "run_simulation", 11, outcome)),
               "run_simulation")

\* the RUN AC button with a sweep that succeeds whenever it is called:
\* line 824 passes eight positional arguments
RunAcCall ==
    \E outcome \in AcResponses :
        SetGui(run_ac(Gui,
                   Call(pyltspicetest1, "run_ac_simulation", 8, outcome)),
               "run_ac")

NextCall ==
    \/ LoadModel
    \/ SpinR9
    \/ ToggleAppend
    \/ RunCall
    \/ RunAcCall
    \/ ShowFft
    \/ RightClick
    \/ SavePdf

SpecCall == InitApp /\ [][NextCall]_vars

\* the nonlocals hold a trace the simulation returned, and the three labels
\* its measurements
HoldsTrace ==
    \E r \in AppTraces :
        /\ time_data = Array(r.t)
        /\ voltage_data = Array(r.v)
        /\ labels = run_simulation(Gui, r).labels
        /\ NoText \notin {labels.slew_label_var, labels.slew80_label_var,
                          labels.settling_label_var}

\* the nonlocals hold a response the sweep returned
HoldsResponse ==
    \E r \in AcResponses :
        /\ freq_data = Array(r.freq)
        /\ mag_data = Array(r.mag)

\* C28: with a model loaded and a simulation layer that succeeds, after RUN
\* time_data / voltage_data hold the returned trace and the three labels
\* are set, and after RUN AC freq_data / mag_data hold the returned
\* response.
C28_RunReachesResult ==
    current_model # <<>> =>
        /\ last_event.kind = "run_simulation" => HoldsTrace
        /\ last_event.kind = "run_ac" => HoldsResponse

\* the handlers themselves store what a call returns: under SpecApp, where
\* the outcome of the call is an input, a RUN or RUN AC that showed no
\* dialog holds the result
C28_StoredWhenReturned ==
    messagebox = None =>
        /\ last_event.kind = "run_simulation" => HoldsTrace
        /\ last_event.kind = "run_ac" => HoldsResponse

\* RUN with a model loaded has ended in the error dialog, no trace stored
C28_WitnessRunRaised ==
    /\ current_model # <<>>
    /\ last_event.kind = "run_simulation"
    /\ messagebox = showerror("Error", "Simulation failed")
    /\ time_data = None
    /\ labels.slew_label_var = NoText

\* RUN AC with a model loaded has ended in the error dialog
C28_WitnessAcRaised ==
    /\ current_model # <<>>
    /\ last_event.kind = "run_ac"
    /\ messagebox = showerror("Error", "AC simulation failed")
    /\ freq_data = None
====
